---------------------------- MODULE Spec2Model ----------------------------
(***************************************************************************)
(* Audio transport pipeline of audio-stream: the textual wire codec        *)
(* (AudioRecorder::recordCallback / AudioSpeaker::handle_receive_cb), the  *)
(* endpoint validation of the Sender/Receiver constructors, and the        *)
(* UDPReceiver / BluetoothReceiver / AudioSpeaker lifecycle with its       *)
(* background thread.                                                      *)
(*                                                                         *)
(* Bytes are modelled by their ASCII codes: '0'..'9' = 48..57, '-' = 45,   *)
(* '+' = 43, '.' = 46, ':' = 58, '\n' = 10, ' ' = 32.                      *)
(***************************************************************************)
EXTENDS Integers, Sequences, FiniteSets, TLC

VARIABLES
    \* ---- wire codec (audio_stream.cpp) ----
    inputBuffer,   \* the interleaved samples PortAudio hands to recordCallback
    wire,          \* the Wire Message in flight (a sequence of bytes)
    ntok,          \* how many sample tokens the message in flight carries
    write_buf,     \* handle_receive_cb's write_buf[frames_per_buffer][num_channels]
    cstage,        \* "captured" -> "sent" -> ("cut" ->) "played"
    \* ---- endpoint validation and construction (sender.cpp, receiver.cpp) ----
    obj,           \* the Sender/Receiver object the last constructor call left
    port_checked,  \* the argument of the last is_valid_port calls
    port_valid,    \* what each is_valid_port returned for it
    mac,           \* the candidate MAC address string
    edits,         \* how many single-byte edits produced it
    mac_valid,     \* what is_valid_mac returned for it ("unchecked" before)
    \* ---- Receiver / AudioSpeaker lifecycle (receiver.cpp, audio_stream.cpp) ----
    variant,       \* "udp": UDPReceiver, "bt": BluetoothReceiver
    mode,          \* "test": a client calls start()/stop(); "speaker": an AudioSpeaker owns it
    mpc,           \* where the control thread is
    ret,           \* where stop() returns to
    dpc,           \* the statement of ~AudioSpeaker the control thread is at
    calls,         \* start()/stop() calls the client has made
    log,           \* the client's calls and the peer's sends, in order
    quiesced,      \* stop() has returned and start() was not called since
    crashed,       \* "none", or the call in which the process terminated
    tpc,           \* where the receiver's background thread is
    cur,           \* the (error, recv_bytes) of the completion being handled
    mid_cb_stop,   \* stop() reached its join while the thread was in the callback
    joinable,      \* thread_.joinable()
    io_stopped,    \* io_service_.stopped()
    polling_,      \* BluetoothReceiver::polling_
    hive_stopped,  \* GetHive()->Stop() was called
    sock,          \* "closed", "open", "bound" (listening), "connected" (bt: accepted)
    pending,       \* receive operations armed on the socket / connection
    net,           \* datagrams / connection events waiting in the socket
    events,        \* how many the peer and the network have produced
    recv_buf,      \* recv_buf_ (the bytes written so far)
    received,      \* what the test's capturing callback has collected
    stream_,       \* AudioSpeaker::stream_ is non-null
    dev,           \* the output device: "none", "open", "started", "closed"
    writes,        \* Pa_WriteStream calls made
    late_write,    \* a Pa_WriteStream call was made on a closed stream
    taken,         \* the completions the thread took from the socket, in order
    delivered,     \* the (bytes, length) each callback invocation was given
    errlog,        \* receive errors the receiver has logged
    stream_lock_,  \* ConnectionAcceptor::stream_lock_: "free" or "held"
    alias,         \* the shared_ptr start() made from `this`: "none", "held", "released"
    destructions,  \* how many times the Receiver's destructor was entered
    \* ---- UDPSender / AudioRecorder (sender.cpp, audio_stream.cpp) ----
    rpc,           \* where the owner of the sender / recorder is
    rdev,          \* the input stream: "none", "open", "started", "closed"
    rstop,         \* the recorder was asked to stop (its destruction began)
    rlast,         \* the last recordCallback: was stop requested, what it returned
    rcalls,        \* send() calls made (by recordCallback or by the client)
    s_ep,          \* the sender's (ip_, port_)
    s_sock,        \* the sender's socket_: "open", "closed"
    sendlog,       \* the messages passed to send(), in call order
    sent,          \* the datagrams put on the network, in order
    \* ---- command line (main.cpp) ----
    cpc,           \* where main() is
    args,          \* the parsed command line: help, player, recorder
    pa,            \* PortAudio: "uninit", "init", "failed", "terminated"
    exit_code,     \* -1 while running, else the code main returned
    out,           \* the messages written to standard output, in order
    role,          \* "none", "player", "recorder": the object main created
    stdin_left,    \* how many lines are still to come on standard input
    lines_read     \* the lines getline has returned

codecVars == <<inputBuffer, wire, ntok, write_buf, cstage>>

ctorVars == <<obj, port_checked, port_valid>>

macVars == <<mac, edits, mac_valid>>

\* Configuration and ownership: only start() and the destructors touch the
\* latter.
cfgVars == <<variant, mode, alias, destructions>>

recVars == <<rpc, rdev, rstop, rlast, rcalls, s_ep, s_sock, sendlog, sent>>

cliVars == <<cpc, args, pa, exit_code, out, role, stdin_left, lines_read>>

mainVars == <<mpc, ret, dpc, calls, log, quiesced, crashed>>

thrVars == <<tpc, cur, mid_cb_stop>>

rcvVars == <<joinable, io_stopped, polling_, hive_stopped, sock, pending>>

netVars == <<net, events, recv_buf, received>>

devVars == <<stream_, dev, writes, late_write>>

histVars == <<taken, delivered, errlog>>

lockVars == <<stream_lock_>>

rxVars ==
    <<cfgVars, mainVars, thrVars, rcvVars, netVars, devVars, histVars,
      lockVars>>

vars == <<codecVars, ctorVars, macVars, rxVars, recVars, cliVars>>

notCodecVars == <<ctorVars, macVars, rxVars, recVars, cliVars>>

notCtorVars == <<codecVars, macVars, rxVars, recVars, cliVars>>

notMacVars == <<codecVars, ctorVars, rxVars, recVars, cliVars>>

notRxVars == <<codecVars, ctorVars, macVars, recVars, cliVars>>

notRecVars == <<codecVars, ctorVars, macVars, rxVars, cliVars>>

notCliVars == <<codecVars, ctorVars, macVars, rxVars, recVars>>

----------------------------------------------------------------------------
(* Program constants (audio_config.hpp).                                   *)

frames_per_buffer == 16

num_channels == 2

sample_silence == 0

buffer_size == 8192

\* int16_t limits of `using sample = int16_t`.
SampleMin == -32768

SampleMax == 32767

NumSlots == frames_per_buffer * num_channels

----------------------------------------------------------------------------
(* Bounds of the model.                                                    *)

\* Probe samples: the int16_t limits and every value in -MaxSmall..MaxSmall.
MaxSmall == 1

SampleProbes == {SampleMin, SampleMax} \cup (-MaxSmall..MaxSmall)

\* Buffers the audio engine delivers: the first `split` slots hold v1, the
\* remaining slots hold v2, so every slot sees every probe value next to
\* every other one.
Buffers ==
    { [k \in 1..NumSlots |-> IF k <= split THEN v1 ELSE v2] :
        v1 \in SampleProbes, v2 \in SampleProbes, split \in 0..NumSlots }

----------------------------------------------------------------------------
(* Encoding: std::stringstream << int16_t << "\n".                         *)

RECURSIVE Digits(_)
Digits(n) ==
    IF n < 10 THEN <<48 + n>> ELSE Digits(n \div 10) \o <<48 + (n % 10)>>

\* operator<<(short): decimal text, a leading '-' for negative values.
FormatSampleNoSign(v) == IF v < 0 THEN Digits(-v) ELSE Digits(v)

FormatSample(v) == IF v < 0 THEN <<45>> \o Digits(-v) ELSE Digits(v)

\* The two nested loops of recordCallback walk rptr over
\* framesPerBuffer * num_channels interleaved samples.
RECURSIVE EncodeFromCrLf(_, _, _)
EncodeFromCrLf(rptr, k, n) ==
    IF k > n THEN <<>>
    ELSE FormatSample(rptr[k]) \o <<13, 10>> \o EncodeFromCrLf(rptr, k + 1, n)

RECURSIVE EncodeFrom(_, _, _)
EncodeFrom(rptr, k, n) ==
    IF k > n THEN <<>>
    ELSE FormatSample(rptr[k]) \o <<10>> \o EncodeFrom(rptr, k + 1, n)

recordCallbackText(rptr, framesPerBuffer) ==
    EncodeFrom(rptr, 1, framesPerBuffer * num_channels)

----------------------------------------------------------------------------
(* Decoding: std::stringstream >> int16_t, once per slot.                  *)

IsSpace(c) == c \in {9, 10, 11, 12, 13, 32}

IsDigit(c) == c \in 48..57

RECURSIVE SkipWs(_, _)
SkipWs(s, p) == IF p <= Len(s) /\ IsSpace(s[p]) THEN SkipWs(s, p + 1) ELSE p

RECURSIVE DigitsEnd(_, _)
DigitsEnd(s, p) ==
    IF p <= Len(s) /\ IsDigit(s[p]) THEN DigitsEnd(s, p + 1) ELSE p

\* The magnitude of the digit run s[p..q-1].  num_get accumulates into a
\* long and operator>>(short&) clamps afterwards; every magnitude above
\* 32768 clamps the same way, so the accumulator saturates at 32769.
RECURSIVE Magnitude(_, _, _, _)
Magnitude(s, p, q, acc) ==
    IF p >= q THEN acc
    ELSE LET nxt == acc * 10 + (s[p] - 48)
         IN  Magnitude(s, p + 1, q, IF nxt > -SampleMin THEN 1 - SampleMin ELSE nxt)

\* The sentry of operator>>: with failbit set the stream is not good() and
\* the extraction does nothing.  Nothing in handle_receive_cb calls clear().
SentryIgnoresFailbit(st) == FALSE

SentryFails(st) == st.fail

\* One `ss >> write_buf[i][j]`.  st = [pos, fail] is the stream state.
\* Result: the new stream state, whether the slot is stored to, and the
\* value stored.
\*  - failbit already set, or only whitespace left: the sentry fails and the
\*    slot is left untouched;
\*  - no digits: failbit, 0 is stored;
\*  - out of the int16_t range: failbit, the nearest limit is stored.
ExtractShort(s, st) ==
    IF SentryFails(st) THEN [pos |-> st.pos, fail |-> TRUE, store |-> FALSE, val |-> 0]
    ELSE
    LET p1 == SkipWs(s, st.pos) IN
    IF p1 > Len(s)
    THEN [pos |-> p1, fail |-> TRUE, store |-> FALSE, val |-> 0]
    ELSE
    LET neg == s[p1] = 45
        p2  == IF s[p1] \in {43, 45} THEN p1 + 1 ELSE p1
        p3  == DigitsEnd(s, p2)
        mag == Magnitude(s, p2, p3, 0)
        v   == IF neg THEN -mag ELSE mag
    IN  IF p3 = p2
        THEN [pos |-> p3, fail |-> TRUE, store |-> TRUE, val |-> 0]
        ELSE IF v > SampleMax
        THEN [pos |-> p3, fail |-> TRUE, store |-> TRUE, val |-> SampleMax]
        ELSE IF v < SampleMin
        THEN [pos |-> p3, fail |-> TRUE, store |-> TRUE, val |-> SampleMin]
        ELSE [pos |-> p3, fail |-> FALSE, store |-> TRUE, val |-> v]

\* sample write_buf[frames_per_buffer][num_channels] = {{sample_silence}};
InitWriteBufGarbage ==
    [i \in 0..(frames_per_buffer - 1) |->
        [j \in 0..(num_channels - 1) |->
            IF i = 0 /\ j = 0 THEN sample_silence ELSE 1]]

InitWriteBuf ==
    [i \in 0..(frames_per_buffer - 1) |->
        [j \in 0..(num_channels - 1) |-> sample_silence]]

\* for (i ...) for (j ...) ss >> write_buf[i][j];   slot k = i*num_channels + j
RECURSIVE ReadSlots(_, _, _, _)
ReadSlots(s, st, k, buf) ==
    IF k >= NumSlots THEN buf
    ELSE LET r == ExtractShort(s, st)
             i == k \div num_channels
             j == k % num_channels
             nb == IF r.store THEN [buf EXCEPT ![i][j] = r.val] ELSE buf
         IN  IF r.fail
             THEN ReadSlots(s, [pos |-> r.pos, fail |-> TRUE], k + 1, nb)
             ELSE ReadSlots(s, [pos |-> r.pos, fail |-> FALSE], k + 1, nb)

\* handle_receive_cb(buf, recv_bytes): the first recv_bytes bytes of buf go
\* into the stringstream, then the slots are read back in row-major order.
handle_receive_cb_decode(buf, recv_bytes) ==
    ReadSlots(SubSeq(buf, 1, recv_bytes), [pos |-> 1, fail |-> FALSE], 0,
              InitWriteBuf)

\* The memory Pa_WriteStream reads: write_buf as interleaved samples.
Interleaved(buf) ==
    [k \in 1..NumSlots |-> buf[(k - 1) \div num_channels][(k - 1) % num_channels]]

----------------------------------------------------------------------------
(* Endpoint validation (sender.cpp, receiver.cpp, main.cpp).               *)

\* UDPSender::is_valid_port
UDPSender_is_valid_port(port) == port >= 1 /\ port <= 65535

\* UDPReceiver::is_valid_port
UDPReceiver_is_valid_port_from_zero(port) == port >= 0 /\ port <= 65535

UDPReceiver_is_valid_port(port) == port > 0 /\ port <= 65535

\* is_valid_port of main.cpp
main_is_valid_port(port) == port > 0 /\ port <= 65535

\* BluetoothSender::is_valid_port
BluetoothSender_is_valid_port(port) == port >= 1 /\ port <= 30

\* UDPSender::is_valid_ip: address::from_string(ip, ec) succeeds.  Modelled
\* for dotted-decimal candidates (the inet_pton AF_INET scan): up to four
\* '.'-separated runs of digits, each at most 255 and without a leading
\* zero, and exactly four of them.  st = [octets, saw_digit, cur].
RECURSIVE ScanDotted(_, _, _)
ScanDotted(s, p, st) ==
    IF p > Len(s) THEN st.octets = 4
    ELSE IF IsDigit(s[p])
    THEN LET new == st.cur * 10 + (s[p] - 48)
         IN  IF (st.saw_digit /\ st.cur = 0) \/ new > 255 THEN FALSE
             ELSE IF ~st.saw_digit /\ st.octets + 1 > 4 THEN FALSE
             ELSE ScanDotted(s, p + 1,
                     [octets    |-> IF st.saw_digit THEN st.octets
                                    ELSE st.octets + 1,
                      saw_digit |-> TRUE,
                      cur       |-> new])
    ELSE IF s[p] = 46 /\ st.saw_digit
    THEN IF st.octets = 4 THEN FALSE
         ELSE ScanDotted(s, p + 1,
                 [octets |-> st.octets, saw_digit |-> FALSE, cur |-> 0])
    ELSE FALSE

is_valid_ip(ip) ==
    ScanDotted(ip, 1, [octets |-> 0, saw_digit |-> FALSE, cur |-> 0])

\* BluetoothSender::is_valid_mac:
\*   regex_match(mac_address, "^([0-9A-Fa-f]{2}[:-]){5}([0-9A-Fa-f]{2})$")
\* [0-9A-Fa-f]
IsHexClass(c) == c \in (48..57) \cup (65..70) \cup (97..102)

\* [:-]
IsSepClass(c) == c \in {58, 45}

\* ([0-9A-Fa-f]{2}[:-]) tried at position p: the position after the group,
\* 0 when it does not match there.
MatchGroup(s, p) ==
    IF p + 2 <= Len(s) /\ IsHexClass(s[p]) /\ IsHexClass(s[p + 1])
                       /\ IsSepClass(s[p + 2])
    THEN p + 3 ELSE 0

\* (...){n} from position p: the position after the n groups, 0 on failure.
RECURSIVE MatchGroups(_, _, _)
MatchGroups(s, p, n) ==
    IF n = 0 THEN p
    ELSE LET q == MatchGroup(s, p)
         IN  IF q = 0 THEN 0 ELSE MatchGroups(s, q, n - 1)

\* The same pattern without its closing anchor, searched at the start.
is_valid_mac_unanchored(mac_address) ==
    LET p == MatchGroups(mac_address, 1, 5)
    IN  /\ p # 0
        /\ p + 1 <= Len(mac_address)
        /\ IsHexClass(mac_address[p])
        /\ IsHexClass(mac_address[p + 1])

is_valid_mac(mac_address) ==
    LET p == MatchGroups(mac_address, 1, 5)
    IN  /\ p # 0
        /\ p + 1 <= Len(mac_address)
        /\ IsHexClass(mac_address[p])
        /\ IsHexClass(mac_address[p + 1])
        /\ p + 1 = Len(mac_address)

----------------------------------------------------------------------------
(* Inputs of the constructor and validation runs.                          *)

\* Ports tried: everything within MaxPortSlack of the limits 1, 30 and
\* 65535, the 70000 of the construction-failure scenario, and the ends of
\* the int range.
MaxPortSlack == 2

PortProbes ==
    ((0 - MaxPortSlack)..(1 + MaxPortSlack))
        \cup ((30 - MaxPortSlack)..(31 + MaxPortSlack))
        \cup ((65535 - MaxPortSlack)..(65536 + MaxPortSlack))
        \cup {70000, -2147483647, 2147483647}

Ip_127_0_0_1 == <<49, 50, 55, 46, 48, 46, 48, 46, 49>>

Ip_0_0_0_0 == <<48, 46, 48, 46, 48, 46, 48>>

Ip_255_255_255_255 == <<50, 53, 53, 46, 50, 53, 53, 46, 50, 53, 53, 46, 50, 53, 53>>

Ip_999_999_999_999 == <<57, 57, 57, 46, 57, 57, 57, 46, 57, 57, 57, 46, 57, 57, 57>>

Ip_256_0_0_1 == <<50, 53, 54, 46, 48, 46, 48, 46, 49>>

Ip_1_2_3 == <<49, 46, 50, 46, 51>>

Ip_1_2_3_4_5 == <<49, 46, 50, 46, 51, 46, 52, 46, 53>>

Ip_localhost == <<108, 111, 99, 97, 108, 104, 111, 115, 116>>

\* "10.255.255.1": well-formed, and no host answers there.
Ip_10_255_255_1 == <<49, 48, 46, 50, 53, 53, 46, 50, 53, 53, 46, 49>>

GoodIps == {Ip_127_0_0_1, Ip_0_0_0_0, Ip_255_255_255_255, Ip_10_255_255_1}

UnreachableIps == {Ip_10_255_255_1}

BadIps == {Ip_999_999_999_999, Ip_256_0_0_1, Ip_1_2_3, Ip_1_2_3_4_5,
           Ip_localhost, <<>>}

IpProbes == GoodIps \cup BadIps

\* "00:1A:7D:DA:71:13", "00:1A:7D" and "001A7DDA7113"
Mac_00_1A_7D_DA_71_13 == <<48, 48, 58, 49, 65, 58, 55, 68, 58, 68, 65, 58, 55, 49, 58, 49, 51>>

Mac_00_1A_7D == <<48, 48, 58, 49, 65, 58, 55, 68>>

Mac_001A7DDA7113 == <<48, 48, 49, 65, 55, 68, 68, 65, 55, 49, 49, 51>>

MacSeeds == {Mac_00_1A_7D_DA_71_13, Mac_00_1A_7D, Mac_001A7DDA7113}

\* Bytes edited into a candidate: '9' 'a' 'F' 'g' ':' '-' and a newline.
MacAlphabet == {57, 97, 70, 103, 58, 45, 10}

\* How many single-byte edits (replace, insert, delete) a candidate MAC
\* string is away from a seed.
MaxEdits == 1

NoObject ==
    [cls |-> "none", port |-> 0, addr |-> <<>>, thrown |-> FALSE,
     sock |-> "closed", thread |-> FALSE, started |-> FALSE]

CtorIdle ==
    /\ obj = NoObject
    /\ port_checked = <<>>
    /\ port_valid = <<>>

MacIdle ==
    /\ mac = <<>>
    /\ edits = 0
    /\ mac_valid = "unchecked"

\* A Receiver right after its constructor, no AudioSpeaker yet.
RxConstructed ==
    /\ ret = "idle"
    /\ dpc = 0
    /\ calls = 0
    /\ log = <<>>
    /\ quiesced = FALSE
    /\ crashed = "none"
    /\ tpc = "none"
    /\ cur = [err |-> FALSE, n |-> 0]
    /\ mid_cb_stop = FALSE
    /\ joinable = FALSE
    /\ io_stopped = FALSE
    /\ polling_ = FALSE
    /\ hive_stopped = FALSE
    /\ sock = "closed"
    /\ pending = 0
    /\ net = <<>>
    /\ events = 0
    /\ recv_buf = <<>>
    /\ received = <<>>
    /\ stream_ = FALSE
    /\ dev = "none"
    /\ writes = 0
    /\ late_write = FALSE
    /\ taken = <<>>
    /\ delivered = <<>>
    /\ errlog = 0
    /\ stream_lock_ = "free"
    /\ alias = "none"
    /\ destructions = 0

\* No sender, no recorder.
RecIdle ==
    /\ rpc = "gone"
    /\ rdev = "none"
    /\ rstop = FALSE
    /\ rlast = [stop |-> FALSE, status |-> "none"]
    /\ rcalls = 0
    /\ s_ep = [ip |-> <<>>, port |-> 0]
    /\ s_sock = "closed"
    /\ sendlog = <<>>
    /\ sent = <<>>

\* main() not entered.
CliIdle ==
    /\ cpc = "none"
    /\ args = [parse |-> "ok", help |-> FALSE, player |-> <<>>, recorder |-> <<>>]
    /\ pa = "uninit"
    /\ exit_code = -1
    /\ out = <<>>
    /\ role = "none"
    /\ stdin_left = 0
    /\ lines_read = <<>>

RxIdle ==
    /\ variant = "udp"
    /\ mode = "test"
    /\ mpc = "idle"
    /\ RxConstructed
    /\ RecIdle
    /\ CliIdle

----------------------------------------------------------------------------
(* The codec as a state machine: capture -> encode -> (truncate) -> decode *)

\* The end of the k-th token of message s (the position of its k-th
\* newline), 0 for k = 0.
TokenEnd(s, k) ==
    IF k = 0 THEN 0
    ELSE CHOOSE p \in 1..Len(s) :
            /\ s[p] = 10
            /\ Cardinality({q \in 1..p : s[q] = 10}) = k

InitCodec ==
    /\ CtorIdle
    /\ MacIdle
    /\ RxIdle
    /\ inputBuffer \in Buffers
    /\ wire = <<>>
    /\ ntok = 0
    /\ write_buf = InitWriteBuf
    /\ cstage = "captured"

\* The codec variables of a run that exercises another part of the program.
CodecIdle ==
    /\ inputBuffer = [k \in 1..NumSlots |-> sample_silence]
    /\ wire = <<>>
    /\ ntok = 0
    /\ write_buf = InitWriteBuf
    /\ cstage = "captured"

\* AudioRecorder::recordCallback: encode the delivered buffer and send it.
RecordCallback ==
    /\ cstage = "captured"
    /\ wire' = recordCallbackText(inputBuffer, frames_per_buffer)
    /\ ntok' = NumSlots
    /\ cstage' = "sent"
    /\ UNCHANGED <<inputBuffer, write_buf, notCodecVars>>

\* The transport delivers only the first k tokens of the message (with or
\* without the newline that ends the k-th).
Truncate ==
    /\ cstage = "sent"
    /\ \E k \in 0..(NumSlots - 1), dropNl \in BOOLEAN :
          LET e == TokenEnd(wire, k)
          IN  /\ wire' = SubSeq(wire, 1, IF dropNl /\ k > 0 THEN e - 1 ELSE e)
              /\ ntok' = k
    /\ cstage' = "cut"
    /\ UNCHANGED <<inputBuffer, write_buf, notCodecVars>>

\* AudioSpeaker::handle_receive_cb on the received bytes.
HandleReceive ==
    /\ cstage \in {"sent", "cut"}
    /\ write_buf' = handle_receive_cb_decode(wire, Len(wire))
    /\ cstage' = "played"
    /\ UNCHANGED <<inputBuffer, wire, ntok, notCodecVars>>

NextCodec == RecordCallback \/ Truncate \/ HandleReceive

SpecCodec == InitCodec /\ [][NextCodec]_vars

----------------------------------------------------------------------------
(* C1: round trip -- decoding the message that encodes a buffer of 16 x 2  *)
(* int16_t samples gives back that buffer in every slot.                   *)
RoundTrip ==
    (cstage = "played" /\ ntok = NumSlots)
        => \A k \in 1..NumSlots : Interleaved(write_buf)[k] = inputBuffer[k]

RoundTripWitness ==
    /\ cstage = "played"
    /\ ntok = NumSlots
    /\ \E k \in 1..NumSlots : inputBuffer[k] = SampleMin
    /\ \E k \in 1..NumSlots : inputBuffer[k] = SampleMax
    /\ Len(wire) <= buffer_size

(* C6: partial data -- a message carrying exactly k < 32 valid tokens      *)
(* decodes to those k samples followed by 32 - k zeros.                    *)
PartialDataZeroPadded ==
    (cstage = "played" /\ ntok < NumSlots)
        => /\ \A k \in 1..ntok : Interleaved(write_buf)[k] = inputBuffer[k]
           /\ \A k \in (ntok + 1)..NumSlots : Interleaved(write_buf)[k] = 0

PartialDataWitness ==
    /\ cstage = "played"
    /\ ntok = 5
    /\ inputBuffer[5] = SampleMin
    /\ inputBuffer[6] # 0
    /\ Interleaved(write_buf)[5] = SampleMin
    /\ Interleaved(write_buf)[6] = 0

----------------------------------------------------------------------------
(* Constructors of the Sender / Receiver variants.  Each yields the object *)
(* it leaves: whether it threw, the state of its socket, whether a thread  *)
(* was spawned.                                                            *)

Constructed(cls, port, addr, sk, th) ==
    [cls |-> cls, port |-> port, addr |-> addr, thrown |-> FALSE,
     sock |-> sk, thread |-> th, started |-> FALSE]

Thrown(cls, port, addr, sk, th) ==
    [cls |-> cls, port |-> port, addr |-> addr, thrown |-> TRUE,
     sock |-> sk, thread |-> th, started |-> FALSE]

\* UDPSender::UDPSender: the socket object is built unopened by the member
\* initialisers; port and ip are validated; only then socket_.open().
UDPSenderCtorOpensFirst(ip, port) ==
    IF ~UDPSender_is_valid_port(port)
    THEN Thrown("UDPSender", port, ip, "open", FALSE)
    ELSE IF ~is_valid_ip(ip)
    THEN Thrown("UDPSender", port, ip, "open", FALSE)
    ELSE Constructed("UDPSender", port, ip, "open", FALSE)

UDPSenderCtor(ip, port) ==
    IF ~UDPSender_is_valid_port(port)
    THEN Thrown("UDPSender", port, ip, "closed", FALSE)
    ELSE IF ~is_valid_ip(ip)
    THEN Thrown("UDPSender", port, ip, "closed", FALSE)
    ELSE Constructed("UDPSender", port, ip, "open", FALSE)

\* UDPReceiver::UDPReceiver: validates the port; opens nothing (start() does).
UDPReceiverCtor(port) ==
    IF ~UDPReceiver_is_valid_port(port)
    THEN Thrown("UDPReceiver", port, <<>>, "closed", FALSE)
    ELSE Constructed("UDPReceiver", port, <<>>, "closed", FALSE)

\* BluetoothSender::BluetoothSender: validates channel and MAC, connects,
\* then spawns the polling thread.
BluetoothSenderCtor(mac_address, port) ==
    IF ~BluetoothSender_is_valid_port(port)
    THEN Thrown("BluetoothSender", port, mac_address, "closed", FALSE)
    ELSE IF ~is_valid_mac(mac_address)
    THEN Thrown("BluetoothSender", port, mac_address, "closed", FALSE)
    ELSE Constructed("BluetoothSender", port, mac_address, "open", TRUE)

\* BluetoothReceiver::BluetoothReceiver: member initialisers only.
BluetoothReceiverCtor(port) ==
    Constructed("BluetoothReceiver", port, <<>>, "closed", FALSE)

InitCtor ==
    /\ CodecIdle
    /\ MacIdle
    /\ RxIdle
    /\ CtorIdle

Fresh == obj = NoObject /\ port_checked = <<>>

\* Every is_valid_port of the program applied to one argument.
CheckPort ==
    /\ Fresh
    /\ \E n \in PortProbes :
          /\ port_checked' = <<n>>
          /\ port_valid' =
                [UDPSender       |-> UDPSender_is_valid_port(n),
                 UDPReceiver     |-> UDPReceiver_is_valid_port(n),
                 main            |-> main_is_valid_port(n),
                 BluetoothSender |-> BluetoothSender_is_valid_port(n)]
    /\ UNCHANGED <<obj, notCtorVars>>

ConstructUDPSender ==
    /\ Fresh
    /\ \E ip \in IpProbes, port \in PortProbes : obj' = UDPSenderCtor(ip, port)
    /\ UNCHANGED <<port_checked, port_valid, notCtorVars>>

ConstructUDPReceiver ==
    /\ Fresh
    /\ \E port \in PortProbes : obj' = UDPReceiverCtor(port)
    /\ UNCHANGED <<port_checked, port_valid, notCtorVars>>

ConstructBluetoothSender ==
    /\ Fresh
    /\ \E m \in MacSeeds, port \in PortProbes :
          obj' = BluetoothSenderCtor(m, port)
    /\ UNCHANGED <<port_checked, port_valid, notCtorVars>>

ConstructBluetoothReceiver ==
    /\ Fresh
    /\ \E port \in PortProbes : obj' = BluetoothReceiverCtor(port)
    /\ UNCHANGED <<port_checked, port_valid, notCtorVars>>

\* start() on a receiver that was constructed: UDPReceiver opens and binds
\* its socket and spawns its thread; BluetoothReceiver listens on port_,
\* accepts and spawns its polling thread.
StartConstructed ==
    /\ obj.cls \in {"UDPReceiver", "BluetoothReceiver"}
    /\ ~obj.thrown
    /\ ~obj.started
    /\ obj' = [obj EXCEPT !.started = TRUE, !.sock = "bound", !.thread = TRUE]
    /\ UNCHANGED <<port_checked, port_valid, notCtorVars>>

NextCtor ==
    \/ CheckPort
    \/ ConstructUDPSender
    \/ ConstructUDPReceiver
    \/ ConstructBluetoothSender
    \/ ConstructBluetoothReceiver
    \/ StartConstructed

SpecCtor == InitCtor /\ [][NextCtor]_vars

(* C5: a UDPSender or UDPReceiver constructed with a port outside          *)
(* [1, 65535], or a UDPSender constructed with a syntactically invalid IP, *)
(* throws with no socket opened and no thread spawned.                     *)
ConstructionFailureLeavesNothing ==
    (/\ obj.cls \in {"UDPSender", "UDPReceiver"}
     /\ \/ obj.port \notin 1..65535
        \/ obj.cls = "UDPSender" /\ obj.addr \in BadIps)
        => /\ obj.thrown
           /\ obj.sock = "closed"
           /\ ~obj.thread

ConstructionFailureWitness ==
    /\ obj.cls = "UDPSender"
    /\ obj.addr = Ip_999_999_999_999
    /\ obj.port = 65535
    /\ obj.thrown
    /\ obj.sock = "closed"

(* C7: each datagram is_valid_port(n) is true iff 1 <= n <= 65535, and     *)
(* BluetoothSender::is_valid_port(n) is true iff 1 <= n <= 30.             *)
PortValidation ==
    Len(port_checked) = 1
        => LET n == port_checked[1]
           IN  /\ port_valid.UDPSender <=> n \in 1..65535
               /\ port_valid.UDPReceiver <=> n \in 1..65535
               /\ port_valid.main <=> n \in 1..65535
               /\ port_valid.BluetoothSender <=> n \in 1..30

PortValidationWitness ==
    /\ Len(port_checked) = 1
    /\ port_checked[1] = 31
    /\ port_valid.UDPReceiver
    /\ ~port_valid.BluetoothSender

(* C9: every Receiver and Sender variant validates its endpoint at         *)
(* construction: a Bluetooth variant given a channel outside [1, 30] and a *)
(* datagram variant given a port outside [1, 65535] throw, so no variant   *)
(* is constructed with an invalid endpoint and later started.              *)
EndpointValidatedAtConstruction ==
    /\ (obj.cls \in {"BluetoothSender", "BluetoothReceiver"}
            /\ obj.port \notin 1..30) => obj.thrown
    /\ (obj.cls \in {"UDPSender", "UDPReceiver"}
            /\ obj.port \notin 1..65535) => obj.thrown
    /\ obj.started
          => obj.port \in (IF obj.cls = "BluetoothReceiver" THEN 1..30
                           ELSE 1..65535)

(* C17: constructing a UDPSender whose well-formed target address is       *)
(* unreachable throws, leaving no open socket and no thread.               *)
UnreachablePeerFailsConstruction ==
    (obj.cls = "UDPSender" /\ obj.addr \in UnreachableIps)
        => /\ obj.thrown
           /\ obj.sock = "closed"
           /\ ~obj.thread

----------------------------------------------------------------------------
(* is_valid_mac applied to candidate strings: a seed, edited byte by byte. *)

InitMac ==
    /\ CodecIdle
    /\ CtorIdle
    /\ RxIdle
    /\ mac \in MacSeeds
    /\ edits = 0
    /\ mac_valid = "unchecked"

Editable == mac_valid = "unchecked" /\ edits < MaxEdits

ReplaceByte ==
    /\ Editable
    /\ \E p \in 1..Len(mac), c \in MacAlphabet : mac' = [mac EXCEPT ![p] = c]
    /\ edits' = edits + 1
    /\ UNCHANGED <<mac_valid, notMacVars>>

InsertByte ==
    /\ Editable
    /\ \E p \in 0..Len(mac), c \in MacAlphabet :
          mac' = SubSeq(mac, 1, p) \o <<c>> \o SubSeq(mac, p + 1, Len(mac))
    /\ edits' = edits + 1
    /\ UNCHANGED <<mac_valid, notMacVars>>

DeleteByte ==
    /\ Editable
    /\ \E p \in 1..Len(mac) :
          mac' = SubSeq(mac, 1, p - 1) \o SubSeq(mac, p + 1, Len(mac))
    /\ edits' = edits + 1
    /\ UNCHANGED <<mac_valid, notMacVars>>

CheckMac ==
    /\ mac_valid = "unchecked"
    /\ mac_valid' = IF is_valid_mac(mac) THEN "valid" ELSE "invalid"
    /\ UNCHANGED <<mac, edits, notMacVars>>

NextMac == ReplaceByte \/ InsertByte \/ DeleteByte \/ CheckMac

SpecMac == InitMac /\ [][NextMac]_vars

\* Six groups of two hexadecimal digits joined by five ':' or '-'.
SixHexGroups(s) ==
    /\ Len(s) = 17
    /\ \A p \in 1..17 :
          IF p % 3 = 0 THEN s[p] = 58 \/ s[p] = 45
          ELSE \/ s[p] >= 48 /\ s[p] <= 57
               \/ s[p] >= 65 /\ s[p] <= 70
               \/ s[p] >= 97 /\ s[p] <= 102

(* C8: is_valid_mac(s) is true iff s is exactly six groups of two hex      *)
(* digits (either case) separated by ':' or '-'; "00:1A:7D:DA:71:13" is    *)
(* accepted, "00:1A:7D" and "001A7DDA7113" are rejected.                   *)
MacValidation ==
    mac_valid # "unchecked"
        => /\ mac_valid = "valid" <=> SixHexGroups(mac)
           /\ mac = Mac_00_1A_7D_DA_71_13 => mac_valid = "valid"
           /\ mac \in {Mac_00_1A_7D, Mac_001A7DDA7113} => mac_valid = "invalid"

MacValidationWitness ==
    /\ mac_valid = "valid"
    /\ edits = 1
    /\ mac[3] = 45
    /\ mac[6] = 58

----------------------------------------------------------------------------
(* Receiver lifecycle: UDPReceiver / BluetoothReceiver with the background *)
(* thread, driven by a client (the unit test) or owned by an AudioSpeaker. *)

\* start() and stop() calls the client makes.
MaxCalls == 3

\* Datagrams the peer sends plus receive errors the network reports.
MaxNetEvents == 2

\* "Hello, World!" (connector_test.cpp) and "Hi"
Msg_Hello == <<72, 101, 108, 108, 111, 44, 32, 87, 111, 114, 108, 100, 33>>

Msg_Hi == <<72, 105>>

MsgProbes == {Msg_Hello, Msg_Hi}

StopPcs == {"stop_io", "stop_join", "stop_close"}

CbPcs == {"cb_enter", "cb_write"}

Alive == crashed = "none"

Entry(op, data) == [op |-> op, data |-> data]

LogOps == [i \in 1..Len(log) |-> log[i].op]

Min(a, b) == IF a < b THEN a ELSE b

\* ~AudioSpeaker, statement by statement: receiver_->stop(); then, under
\* if (stream_): Pa_CloseStream(stream_); stream_ = nullptr.
AudioSpeakerDtorCloseFirst == <<"close", "null", "stop">>

AudioSpeakerDtor == <<"stop", "close", "null">>

\* io_service_.stop(): the service is stopped from now on.
io_service_stop_noop(stopped) == stopped

io_service_stop(stopped) == TRUE

\* io_service_.run() runs handlers only while the service is not stopped;
\* nothing in UDPReceiver calls reset().
io_service_run_after_reset(stopped) == TRUE

io_service_run_dispatches(stopped) == ~stopped

\* if (thread_.joinable()) thread_.join();  -- what the control thread does
\* given thread_.joinable() and whether the thread function has returned.
join_unguarded(j, done) ==
    IF ~j THEN "throw" ELSE IF done THEN "join" ELSE "block"

join_without_waiting(j, done) == IF ~j THEN "skip" ELSE "join"

join_if_joinable(j, done) ==
    IF ~j THEN "skip" ELSE IF done THEN "join" ELSE "block"

\* async_receive_from(boost::asio::buffer(recv_buf_), ...): the byte count
\* handed to the handler is what fitted into the buffer.
bytes_transferred_untruncated(datagram_len) == datagram_len

bytes_transferred(datagram_len) == Min(datagram_len, buffer_size)

\* async_receive_from into recv_buf_: the datagram overwrites the front of
\* the buffer, at most buffer_size bytes of it.
ReceiveIntoAppending(buf, data) == buf \o SubSeq(data, 1, Min(Len(data), buffer_size))

ReceiveInto(buf, data) ==
    LET n == Min(Len(data), buffer_size)
    IN  SubSeq(data, 1, n) \o SubSeq(buf, n + 1, Len(buf))

Init ==
    /\ CodecIdle
    /\ CtorIdle
    /\ MacIdle
    /\ variant \in {"udp", "bt"}
    /\ mode \in {"test", "speaker"}
    /\ mpc = (IF mode = "test" THEN "idle" ELSE "sp_open")
    /\ RxConstructed
    /\ RecIdle
    /\ CliIdle

\* ---- start() ----

StartFrame ==
    UNCHANGED <<ret, dpc, cur, mid_cb_stop, io_stopped, hive_stopped, pending,
                netVars, devVars, histVars, lockVars, variant, mode, destructions,
                notRxVars>>

\* std::thread assignment: a joinable thread_ terminates the process.
SpawnThread(okpc, first) ==
    IF joinable
    THEN /\ crashed' = "start"
         /\ UNCHANGED <<tpc, joinable, mpc>>
    ELSE /\ tpc' = first
         /\ joinable' = TRUE
         /\ mpc' = okpc
         /\ UNCHANGED crashed

\* UDPReceiver::start
UDPReceiver_start(okpc, throwpc) ==
    /\ variant = "udp"
    /\ UNCHANGED <<polling_, alias>>
    /\ \/ /\ sock # "closed"            \* socket_.open() throws: already open
          /\ mpc' = throwpc
          /\ log' = Append(log, Entry("start_throw", <<>>))
          /\ UNCHANGED <<sock, tpc, joinable, crashed, quiesced>>
       \/ /\ sock = "closed"            \* socket_.bind() throws
          /\ sock' = "open"
          /\ mpc' = throwpc
          /\ quiesced' = FALSE
          /\ log' = Append(log, Entry("start_throw", <<>>))
          /\ UNCHANGED <<tpc, joinable, crashed>>
       \/ /\ sock = "closed"            \* bound; thread_ = std::thread(...)
          /\ sock' = "bound"
          /\ quiesced' = FALSE
          /\ log' = Append(log, Entry("start", <<>>))
          /\ SpawnThread(okpc, "wait0")

\* BluetoothReceiver::start
BluetoothReceiver_start(okpc, throwpc) ==
    /\ variant = "bt"
    /\ \/ /\ mpc' = throwpc             \* acceptor_->Listen(port_) throws
          /\ log' = Append(log, Entry("start_throw", <<>>))
          /\ UNCHANGED <<sock, tpc, joinable, crashed, quiesced, polling_,
                         alias>>
       \/ /\ sock' = (IF sock = "connected" THEN sock ELSE "bound")
          /\ alias' = "held"    \* Accept(boost::shared_ptr<...>(this))
          /\ polling_' = TRUE
          /\ quiesced' = FALSE
          /\ log' = Append(log, Entry("start", <<>>))
          /\ SpawnThread(okpc, "poll")

Receiver_start(okpc, throwpc) ==
    UDPReceiver_start(okpc, throwpc) \/ BluetoothReceiver_start(okpc, throwpc)

\* ---- the client of the unit test ----

CallStart ==
    /\ Alive /\ mode = "test" /\ mpc = "idle" /\ calls < MaxCalls
    /\ calls' = calls + 1
    /\ Receiver_start("idle", "idle")
    /\ StartFrame

CallStop ==
    /\ Alive /\ mode = "test" /\ mpc = "idle" /\ calls < MaxCalls
    /\ calls' = calls + 1
    /\ mpc' = "stop_io"
    /\ ret' = "idle"
    /\ log' = Append(log, Entry("stop", <<>>))
    /\ UNCHANGED <<dpc, quiesced, crashed, thrVars, rcvVars, netVars, devVars,
                   histVars, lockVars, cfgVars, notRxVars>>

\* ~UDPReceiver / ~BluetoothReceiver: stop(); handle_receive_cb_ = nullptr;
Destroy ==
    /\ Alive /\ mode = "test" /\ mpc = "idle"
    /\ mpc' = "stop_io"
    /\ ret' = "dead"
    /\ log' = Append(log, Entry("dtor", <<>>))
    /\ destructions' = destructions + 1
    /\ UNCHANGED <<dpc, calls, quiesced, crashed, thrVars, rcvVars, netVars,
                   devVars, histVars, lockVars, variant, mode, alias, notRxVars>>

\* ---- stop() ----

\* io_service_.stop();   /   polling_ = false;
StopSignal ==
    /\ Alive /\ mpc = "stop_io"
    /\ IF variant = "udp"
       THEN io_stopped' = io_service_stop(io_stopped) /\ UNCHANGED polling_
       ELSE polling_' = FALSE /\ UNCHANGED io_stopped
    /\ mid_cb_stop' = (mid_cb_stop \/ (joinable /\ tpc \in CbPcs))
    /\ mpc' = "stop_join"
    /\ UNCHANGED <<ret, dpc, calls, log, quiesced, crashed, tpc, cur, joinable,
                   hive_stopped, sock, pending, netVars, devVars, histVars, lockVars,
                   cfgVars, notRxVars>>

\* if (thread_.joinable()) thread_.join();
StopJoin ==
    /\ Alive /\ mpc = "stop_join"
    /\ LET o == join_if_joinable(joinable, tpc = "done")
       IN  /\ o # "block"
           /\ joinable' = FALSE
           /\ IF o = "throw"
              THEN crashed' = "stop" /\ UNCHANGED mpc
              ELSE mpc' = "stop_close" /\ UNCHANGED crashed
    /\ UNCHANGED <<ret, dpc, calls, log, quiesced, thrVars, io_stopped,
                   polling_, hive_stopped, sock, pending, netVars, devVars,
                   histVars, lockVars, cfgVars, notRxVars>>

\* socket_.close();   /   GetHive()->Stop();   and return
StopClose ==
    /\ Alive /\ mpc = "stop_close"
    /\ IF variant = "udp"
       THEN /\ sock' = "closed"
            /\ pending' = 0
            /\ net' = <<>>
            /\ UNCHANGED hive_stopped
       ELSE /\ hive_stopped' = TRUE
            /\ UNCHANGED <<sock, pending, net>>
    /\ quiesced' = TRUE
    /\ mpc' = ret
    /\ UNCHANGED <<ret, dpc, calls, log, crashed, thrVars, joinable,
                   io_stopped, polling_, events, recv_buf, received, devVars,
                   histVars, lockVars, cfgVars, notRxVars>>

\* ---- the background thread of UDPReceiver:  wait(); io_service_.run(); ----

ThreadFrame ==
    UNCHANGED <<mainVars, mid_cb_stop, joinable, io_stopped, polling_,
                hive_stopped, sock, events, cfgVars, notRxVars>>

\* UDPReceiver::wait: arm one async_receive_from
T_Wait ==
    /\ Alive /\ tpc \in {"wait0", "rearm"} /\ variant = "udp"
    /\ pending' = pending + 1
    /\ tpc' = "run"
    /\ UNCHANGED <<cur, net, recv_buf, received, devVars>>
    /\ UNCHANGED <<histVars, lockVars>>
    /\ ThreadFrame

\* io_service_.run() returns: the service was stopped (or is out of work)
T_RunExit ==
    /\ Alive /\ tpc = "run"
    /\ io_stopped \/ pending = 0
    /\ tpc' = "done"
    /\ UNCHANGED <<cur, pending, net, recv_buf, received, devVars>>
    /\ UNCHANGED <<histVars, lockVars>>
    /\ ThreadFrame

\* The armed async_receive_from completes: it is no longer outstanding when
\* its handler runs, and only wait() at the end of the handler arms the next.
CompleteReceiveKeepArmed(outstanding) == outstanding

CompleteReceive(outstanding) == outstanding - 1

\* io_service_.run() dispatches the completion of the armed receive:
\* handle_receive_wrapper(error, recv_bytes) is entered.
T_RunDispatch ==
    /\ Alive /\ tpc = "run"
    /\ io_service_run_dispatches(io_stopped) /\ pending > 0 /\ net # <<>>
    /\ LET e == Head(net)
       IN  IF e.kind = "data"
           THEN /\ recv_buf' = ReceiveInto(recv_buf, e.data)
                /\ cur' = [err |-> FALSE, n |-> bytes_transferred(Len(e.data))]
           ELSE /\ recv_buf' = recv_buf
                /\ cur' = [err |-> TRUE, n |-> 0]
    /\ taken' = Append(taken, [err |-> cur'.err,
                                 data |-> SubSeq(Head(net).data, 1, cur'.n)])
    /\ net' = Tail(net)
    /\ pending' = CompleteReceive(pending)
    /\ tpc' = "cb_enter"
    /\ UNCHANGED <<received, devVars, delivered, errlog, lockVars>>
    /\ ThreadFrame

\* ---- the polling thread of BluetoothReceiver: while (polling_) Poll(); ----

T_PollExit ==
    /\ Alive /\ tpc = "poll" /\ ~polling_
    /\ tpc' = "done"
    /\ UNCHANGED <<cur, pending, net, recv_buf, received, devVars>>
    /\ UNCHANGED <<histVars, lockVars>>
    /\ ThreadFrame

\* Poll() runs one ready handler: OnAccept (lock, log, unlock, Recv()),
\* OnError (lock, log, unlock), or OnRecv(buffer) for an armed receive, which
\* locks stream_lock_ and calls handle_receive_cb_ with it held.
T_Poll ==
    /\ Alive /\ tpc = "poll" /\ polling_ /\ ~hive_stopped
    /\ net # <<>>
    /\ LET e == Head(net)
       IN  \/ /\ e.kind = "accept"
              /\ pending' = 1
              /\ UNCHANGED <<tpc, cur, recv_buf, taken, errlog, stream_lock_>>
           \/ /\ e.kind = "error"
              /\ pending' = 0
              /\ taken' = Append(taken, [err |-> TRUE, data |-> <<>>])
              /\ errlog' = errlog + 1
              /\ UNCHANGED <<tpc, cur, recv_buf, stream_lock_>>
           \/ /\ e.kind = "data" /\ pending > 0
              /\ pending' = pending - 1
              /\ recv_buf' = e.data
              /\ cur' = [err |-> FALSE, n |-> Len(e.data)]
              /\ taken' = Append(taken, [err |-> FALSE, data |-> e.data])
              /\ stream_lock_' = "held"
              /\ tpc' = "cb_enter"
              /\ UNCHANGED errlog
    /\ net' = Tail(net)
    /\ UNCHANGED <<received, devVars, delivered>>
    /\ ThreadFrame

\* stream_lock_.unlock() and Recv() after the callback in
\* BluetoothReceiver::OnRecv
T_Recv ==
    /\ Alive /\ tpc = "rearm" /\ variant = "bt"
    /\ stream_lock_' = "free"
    /\ pending' = 1
    /\ tpc' = "poll"
    /\ UNCHANGED <<cur, net, recv_buf, received, devVars>>
    /\ UNCHANGED histVars
    /\ ThreadFrame

\* ---- handle_receive_cb_(buffer, recv_bytes) ----

\* the capturing lambda of the unit test
T_Capture ==
    /\ Alive /\ tpc = "cb_enter" /\ mode = "test"
    /\ received' = received \o SubSeq(recv_buf, 1, cur.n)
    /\ delivered' = Append(delivered, [err |-> cur.err,
                                       data |-> SubSeq(recv_buf, 1, cur.n)])
    /\ tpc' = "rearm"
    /\ UNCHANGED <<cur, pending, net, recv_buf, devVars, taken, errlog,
                   lockVars>>
    /\ ThreadFrame

\* AudioSpeaker::handle_receive_cb: if (!stream_) return;
T_CbCheck ==
    /\ Alive /\ tpc = "cb_enter" /\ mode = "speaker"
    /\ tpc' = (IF stream_ THEN "cb_write" ELSE "rearm")
    /\ delivered' = Append(delivered, [err |-> cur.err,
                                       data |-> SubSeq(recv_buf, 1, cur.n)])
    /\ UNCHANGED <<cur, pending, net, recv_buf, received, devVars, taken,
                   errlog, lockVars>>
    /\ ThreadFrame

\* AudioSpeaker::handle_receive_cb: decode, Pa_WriteStream(stream_, ...)
T_CbWrite ==
    /\ Alive /\ tpc = "cb_write"
    /\ writes' = writes + 1
    /\ late_write' = (late_write \/ dev = "closed")
    /\ tpc' = "rearm"
    /\ UNCHANGED <<cur, pending, net, recv_buf, received, stream_, dev>>
    /\ UNCHANGED <<histVars, lockVars>>
    /\ ThreadFrame

ThreadStep ==
    \/ T_Wait
    \/ T_RunExit
    \/ T_RunDispatch
    \/ T_PollExit
    \/ T_Poll
    \/ T_Recv
    \/ T_Capture
    \/ T_CbCheck
    \/ T_CbWrite

\* ---- the peer and the network ----

EnvFrame ==
    UNCHANGED <<mpc, ret, dpc, calls, quiesced, crashed, thrVars, joinable,
                io_stopped, polling_, hive_stopped, pending, recv_buf,
                received, devVars, histVars, lockVars, cfgVars, notRxVars>>

\* UDPSender::send / BluetoothSender::send of the peer: one datagram (one
\* write) towards the receiver.  A datagram sent while nothing is bound
\* there is dropped by the peer's host and changes nothing here, so only
\* the sends that reach the socket are steps.
Send ==
    /\ Alive /\ mpc # "dead" /\ events < MaxNetEvents
    /\ sock = (IF variant = "udp" THEN "bound" ELSE "connected")
    /\ \E m \in MsgProbes :
          /\ log' = Append(log, Entry("send", m))
          /\ net' = Append(net, [kind |-> "data", data |-> m])
    /\ events' = events + 1
    /\ UNCHANGED sock
    /\ EnvFrame

\* The armed receive completes with an error code.
NetError ==
    /\ Alive /\ events < MaxNetEvents
    /\ sock \in {"bound", "connected"}
    /\ net' = Append(net, [kind |-> "error", data |-> <<>>])
    /\ events' = events + 1
    /\ UNCHANGED <<log, sock>>
    /\ EnvFrame

\* A Bluetooth peer connects to the listening acceptor.
PeerConnect ==
    /\ Alive /\ variant = "bt" /\ sock = "bound"
    /\ sock' = "connected"
    /\ net' = Append(net, [kind |-> "accept", data |-> <<>>])
    /\ UNCHANGED <<log, events>>
    /\ EnvFrame

\* ---- AudioSpeaker ----

SpFrame ==
    UNCHANGED <<ret, calls, log, quiesced, crashed, thrVars, rcvVars, netVars,
                writes, late_write, histVars, lockVars, cfgVars, notRxVars>>

\* if (err != paNoError) throw runtime_error(Pa_GetErrorText(err));
\* -- where the constructor goes on a PortAudio error (next: the statement
\* that follows the check).
PaErrorIgnored(next) == next

PaErrorThrows(next) == "sp_failed"

\* AudioSpeaker::AudioSpeaker: Pa_OpenDefaultStream(&stream_, ...)
SpOpen ==
    /\ Alive /\ mpc = "sp_open"
    /\ \/ stream_' = TRUE /\ dev' = "open" /\ mpc' = "sp_startstream"
       \/ mpc' = PaErrorThrows("sp_startstream") /\ UNCHANGED <<stream_, dev>>
    /\ UNCHANGED dpc
    /\ SpFrame

\* AudioSpeaker::AudioSpeaker: Pa_StartStream(stream_)
SpStartStream ==
    /\ Alive /\ mpc = "sp_startstream"
    /\ \/ dev' = "started" /\ mpc' = "sp_rxstart"
       \/ mpc' = PaErrorThrows("sp_rxstart") /\ UNCHANGED dev
    /\ UNCHANGED <<stream_, dpc>>
    /\ SpFrame

\* AudioSpeaker::AudioSpeaker: receiver_->start()
SpReceiverStart ==
    /\ Alive /\ mpc = "sp_rxstart"
    /\ Receiver_start("sp_live", "sp_failed")
    /\ UNCHANGED calls
    /\ StartFrame

\* ~AudioSpeaker is entered (the user quit)
SpDtorBegin ==
    /\ Alive /\ mpc = "sp_live"
    /\ mpc' = "sp_dtor"
    /\ dpc' = 1
    /\ UNCHANGED <<stream_, dev>>
    /\ SpFrame

\* ~AudioSpeaker: its next statement
SpDtorStep ==
    /\ Alive /\ mpc = "sp_dtor" /\ dpc <= Len(AudioSpeakerDtor)
    /\ dpc' = dpc + 1
    /\ LET stmt == AudioSpeakerDtor[dpc]
       IN  \/ /\ stmt = "stop"
              /\ mpc' = "stop_io"
              /\ ret' = "sp_dtor"
              /\ log' = Append(log, Entry("stop", <<>>))
              /\ UNCHANGED <<stream_, dev>>
           \/ /\ stmt = "close"
              /\ dev' = (IF stream_ THEN "closed" ELSE dev)
              /\ UNCHANGED <<mpc, ret, log, stream_>>
           \/ /\ stmt = "null"
              /\ stream_' = FALSE
              /\ UNCHANGED <<mpc, ret, log, dev>>
    /\ UNCHANGED <<calls, quiesced, crashed, thrVars, rcvVars, netVars,
                   writes, late_write, histVars, lockVars, cfgVars, notRxVars>>

\* The AudioSpeaker is gone (destroyed, or its constructor threw): its
\* shared_ptr<Receiver> is released and the Receiver's destructor runs.
SpRelease ==
    /\ Alive
    /\ \/ mpc = "sp_dtor" /\ dpc > Len(AudioSpeakerDtor)
       \/ mpc = "sp_failed"
    /\ mpc' = "stop_io"
    /\ ret' = "dead"
    /\ log' = Append(log, Entry("dtor", <<>>))
    /\ destructions' = destructions + 1
    /\ UNCHANGED <<dpc, calls, quiesced, crashed, thrVars, rcvVars, netVars,
                   devVars, histVars, lockVars, variant, mode, alias, notRxVars>>

\* BluetoothReceiver::start gave the acceptor a shared_ptr that owns `this`
\* although the object already has an owner.  When the last copy of it is
\* dropped (here: with the handlers of the hive, after the owner destroyed
\* the receiver) it deletes the object again: ~BluetoothReceiver runs on a
\* destroyed object, which is undefined -- the process may or may not die.
AliasRelease ==
    /\ Alive /\ variant = "bt" /\ alias = "held" /\ mpc = "dead"
    /\ alias' = "released"
    /\ destructions' = destructions + 1
    /\ \E outcome \in {"none", "double_delete"} : crashed' = outcome
    /\ UNCHANGED <<variant, mode, mpc, ret, dpc, calls, log, quiesced, thrVars,
                   rcvVars, netVars, devVars, histVars, lockVars, notRxVars>>

MainStopStep == StopSignal \/ StopJoin \/ StopClose

Next ==
    \/ CallStart
    \/ CallStop
    \/ Destroy
    \/ MainStopStep
    \/ ThreadStep
    \/ Send
    \/ NetError
    \/ PeerConnect
    \/ SpOpen
    \/ SpStartStream
    \/ SpReceiverStart
    \/ SpDtorBegin
    \/ SpDtorStep
    \/ SpRelease
    \/ AliasRelease

Spec == Init /\ [][Next]_vars

\* The threads are scheduled: the background thread and a stop() in
\* progress keep running.  Nothing obliges the peer to send.
FairSpec == Spec /\ WF_vars(ThreadStep) /\ WF_vars(MainStopStep)

TransportClosed == IF variant = "udp" THEN sock = "closed" ELSE hive_stopped

(* C2: the unit test -- start(), one send of M to the bound port, then     *)
(* stop(): when stop() has returned the callback has received exactly M.   *)
TestMessageDelivered ==
    (/\ mode = "test" /\ variant = "udp"
     /\ mpc = "idle"
     /\ LogOps = <<"start", "send", "stop">>)
        => received = log[2].data

NoWriteAfterClose ==
    /\ ~late_write
    /\ dev = "closed" => (tpc \in {"none", "done"} /\ ~joinable)

TeardownMidCallbackWitness ==
    /\ mode = "speaker"
    /\ dev = "closed"
    /\ mid_cb_stop
    /\ writes >= 1

(* C10: a stop() that has been called returns, with the background thread  *)
(* terminated and joined, without any further datagram or Bluetooth event. *)
StopTerminates ==
    (mpc = "stop_io") ~> (quiesced /\ ~joinable /\ tpc \in {"none", "done"})

StopParkedWitness ==
    /\ quiesced
    /\ tpc = "done"
    /\ events = 0
    /\ LogOps = <<"start", "stop">>

----------------------------------------------------------------------------
(* Receive loop of UDPReceiver.                                            *)

ErrorsTaken == Cardinality({i \in 1..Len(taken) : taken[i].err})

(* C11: the UDPReceiver thread repeats wait -> callback -> re-arm: every   *)
(* completion taken from the socket gets exactly one callback invocation   *)
(* with that datagram's bytes and length, in the order taken, and the next *)
(* receive is armed only after the callback returned, so at most one       *)
(* receive is outstanding.                                                 *)
ReceiveLoopProtocol ==
    variant = "udp"
        => /\ pending <= 1
           /\ tpc \in (CbPcs \cup {"rearm"}) => pending = 0
           /\ Len(taken) - Len(delivered) = (IF tpc = "cb_enter" THEN 1 ELSE 0)
           /\ \A i \in 1..Len(delivered) : delivered[i] = taken[i]

ReceiveLoopWitness ==
    /\ variant = "udp"
    /\ Len(delivered) = 2
    /\ delivered[1] = [err |-> FALSE, data |-> Msg_Hello]
    /\ delivered[2] = [err |-> FALSE, data |-> Msg_Hi]
    /\ tpc = "run"
    /\ pending = 1

(* C12: a receive that completes with an error while the UDPReceiver runs  *)
(* is logged, the loop re-arms and later datagrams are still delivered.    *)
ReceiveErrorLoggedAndSurvived ==
    variant = "udp"
        => /\ errlog = ErrorsTaken
           /\ (ErrorsTaken > 0 /\ tpc = "run" /\ ~io_stopped) => pending = 1

----------------------------------------------------------------------------
(* AudioSpeaker::handle_receive_cb on arbitrary received bytes.            *)

\* Bytes appended to a seed message.
MaxGarble == 2

\* "abc", "12", "99999\n5\n", "-99999\n5\n", "7\n12x3\n4\n", " \n\n",
\* "3\n-\n4\n"
Bad_abc == <<97, 98, 99>>

Bad_12 == <<49, 50>>

Bad_99999 == <<57, 57, 57, 57, 57, 10, 53, 10>>

Bad_neg99999 == <<45, 57, 57, 57, 57, 57, 10, 53, 10>>

Bad_12x3 == <<55, 10, 49, 50, 120, 51, 10, 52, 10>>

Bad_blank == <<32, 10, 10>>

Bad_sign == <<51, 10, 45, 10, 52, 10>>

\* NumSlots + 1 tokens "1\n": one token more than the buffer has slots.
Bad_surplus == [k \in 1..(2 * (NumSlots + 1)) |-> IF k % 2 = 1 THEN 49 ELSE 10]

MalformedSeeds ==
    {<<>>, Bad_abc, Bad_12, Bad_99999, Bad_neg99999, Bad_12x3, Bad_blank,
     Bad_sign, Bad_surplus}

\* '9', '-', 'x', '\n', NUL
GarbleAlphabet == {57, 45, 120, 10, 0}

\* stringstream ss;  -- default-constructed: ss.exceptions() == goodbit, so
\* a failed extraction sets failbit and throws nothing.
ss_exceptions_failbit == {"failbit"}

ss_exceptions == {}

\* Whether failbit is set after the NumSlots extractions.
RECURSIVE ReadSlotsFail(_, _, _)
ReadSlotsFail(s, st, k) ==
    IF k >= NumSlots THEN st.fail
    ELSE LET r == ExtractShort(s, st)
         IN  IF r.fail
             THEN ReadSlotsFail(s, [pos |-> r.pos, fail |-> TRUE], k + 1)
             ELSE ReadSlotsFail(s, [pos |-> r.pos, fail |-> FALSE], k + 1)

InitDecode ==
    /\ CtorIdle
    /\ MacIdle
    /\ RxIdle
    /\ inputBuffer = [k \in 1..NumSlots |-> sample_silence]
    /\ wire \in MalformedSeeds
    /\ ntok = 0
    /\ write_buf = InitWriteBuf
    /\ cstage = "received"

notDecodeVars ==
    <<inputBuffer, ctorVars, macVars, cfgVars, mainVars, thrVars, rcvVars,
      netVars, histVars, lockVars, late_write, recVars, cliVars>>

\* The datagram carries one more byte.
GarbleByte ==
    /\ cstage = "received"
    /\ ntok < MaxGarble
    /\ \E b \in GarbleAlphabet : wire' = Append(wire, b)
    /\ ntok' = ntok + 1
    /\ UNCHANGED <<write_buf, cstage, stream_, dev, writes, notDecodeVars>>

\* AudioSpeaker::AudioSpeaker succeeded: stream_ is open and started.
StreamOpened ==
    /\ cstage = "received"
    /\ ~stream_
    /\ stream_' = TRUE
    /\ dev' = "started"
    /\ UNCHANGED <<wire, ntok, write_buf, cstage, writes, notDecodeVars>>

\* AudioSpeaker::handle_receive_cb(buf, recv_bytes), whole.
HandleReceiveCb ==
    /\ cstage = "received"
    /\ IF ~stream_
       THEN /\ cstage' = "returned"
            /\ UNCHANGED <<write_buf, writes>>
       ELSE IF "failbit" \in ss_exceptions
               /\ ReadSlotsFail(wire, [pos |-> 1, fail |-> FALSE], 0)
       THEN /\ cstage' = "threw"
            /\ UNCHANGED <<write_buf, writes>>
       ELSE /\ write_buf' = handle_receive_cb_decode(wire, Len(wire))
            /\ writes' = writes + 1
            /\ cstage' = "played"
    /\ UNCHANGED <<wire, ntok, stream_, dev, notDecodeVars>>

NextDecode == GarbleByte \/ StreamOpened \/ HandleReceiveCb

SpecDecode == InitDecode /\ [][NextDecode]_vars

(* C13: whatever bytes are received (empty, truncated, non-numeric, out of *)
(* range, surplus tokens), handle_receive_cb raises no error and, when the *)
(* stream is open, writes exactly one buffer of frames_per_buffer x        *)
(* num_channels int16_t samples to the device.                             *)
MalformedDataTolerated ==
    /\ cstage # "threw"
    /\ (cstage \in {"played", "returned"})
          => /\ writes = (IF stream_ THEN 1 ELSE 0)
             /\ DOMAIN write_buf = 0..(frames_per_buffer - 1)
             /\ \A i \in DOMAIN write_buf :
                   /\ DOMAIN write_buf[i] = 0..(num_channels - 1)
                   /\ \A j \in DOMAIN write_buf[i] :
                         write_buf[i][j] \in SampleMin..SampleMax

MalformedDataWitness ==
    /\ cstage = "played"
    /\ wire = Append(Bad_99999, 120)
    /\ writes = 1
    /\ write_buf[0][0] = SampleMax
    /\ write_buf[0][1] = sample_silence

----------------------------------------------------------------------------
(* Construction of an AudioSpeaker.                                        *)

ReceiverStartCalled ==
    \E i \in 1..Len(log) : log[i].op \in {"start", "start_throw"}

(* C14: the AudioSpeaker constructor starts the Receiver only after the    *)
(* output device was opened and its stream started, so no decode callback  *)
(* runs before the device is open; when the open or the stream start       *)
(* fails the constructor throws, start() is never called and no thread is  *)
(* spawned.                                                                *)
SpeakerStartsReceiverLast ==
    mode = "speaker"
        => /\ (ReceiverStartCalled \/ tpc # "none" \/ joinable)
                 => dev \in {"started", "closed"}
           /\ tpc \in CbPcs => (dev = "started" /\ stream_)
           /\ mpc \in {"sp_rxstart", "sp_live", "sp_dtor"}
                 => dev \in {"started", "closed"}

SpeakerStreamStartFailedWitness ==
    /\ mode = "speaker"
    /\ dev = "open"
    /\ mpc = "dead"
    /\ tpc = "none"
    /\ ~joinable
    /\ ~ReceiverStartCalled

----------------------------------------------------------------------------
(* UDPSender and the AudioRecorder that owns one.                          *)

\* send() calls: recordCallback invocations, or sends of a bare client.
MaxCaptures == 2

\* Buffers the audio engine captures: silence, and the int16_t limits
\* alternating.
CaptureProbes ==
    { [k \in 1..NumSlots |-> sample_silence],
      [k \in 1..NumSlots |-> IF k % 2 = 1 THEN SampleMin ELSE SampleMax] }

SenderPortProbes == {1, 12345, 65535}

\* UDPSender::send: one socket_.send_to of the whole message to (ip_, port_).
UDPSender_send_twice(wire_out, ep, msg) ==
    wire_out \o <<[payload |-> msg, to |-> ep], [payload |-> msg, to |-> ep]>>

UDPSender_send(wire_out, ep, msg) ==
    Append(wire_out, [payload |-> msg, to |-> ep])

\* recordCallback's return statement: return paContinue;
recordCallback_status(stop_requested) == "paContinue"

\* A UDPSender was constructed for a valid endpoint; it is used bare (as the
\* unit test does) or handed to an AudioRecorder being constructed.
InitSend ==
    /\ CodecIdle
    /\ CtorIdle
    /\ MacIdle
    /\ variant = "udp" /\ mode = "test" /\ mpc = "idle"
    /\ RxConstructed
    /\ CliIdle
    /\ rpc \in {"bare", "r_open"}
    /\ rdev = "none"
    /\ rstop = FALSE
    /\ rlast = [stop |-> FALSE, status |-> "none"]
    /\ rcalls = 0
    /\ s_ep \in [ip : GoodIps, port : SenderPortProbes]
    /\ s_sock = "open"
    /\ sendlog = <<>>
    /\ sent = <<>>

\* sender.send(m) by the owner of a bare UDPSender
ClientSend ==
    /\ rpc = "bare" /\ rcalls < MaxCaptures
    /\ \E m \in MsgProbes :
          /\ sendlog' = Append(sendlog, m)
          /\ sent' = UDPSender_send(sent, s_ep, m)
    /\ rcalls' = rcalls + 1
    /\ UNCHANGED <<rpc, rdev, rstop, rlast, s_ep, s_sock, notRecVars>>

\* AudioRecorder::AudioRecorder: Pa_OpenDefaultStream(&stream_, ...)
RecOpen ==
    /\ rpc = "r_open"
    /\ \/ rdev' = "open" /\ rpc' = "r_startstream"
       \/ rpc' = "r_failed" /\ UNCHANGED rdev
    /\ UNCHANGED <<rstop, rlast, rcalls, s_ep, s_sock, sendlog, sent,
                   notRecVars>>

\* AudioRecorder::AudioRecorder: Pa_StartStream(stream_)
RecStartStream ==
    /\ rpc = "r_startstream"
    /\ \/ rdev' = "started" /\ rpc' = "r_live"
       \/ rpc' = "r_failed" /\ UNCHANGED rdev
    /\ UNCHANGED <<rstop, rlast, rcalls, s_ep, s_sock, sendlog, sent,
                   notRecVars>>

\* AudioRecorder::recordCallback on the audio engine's thread, while the
\* stream runs: encode the buffer, recorder->send(ss.str()), return.
RecorderCallback ==
    /\ rdev = "started" /\ rcalls < MaxCaptures
    /\ \E b \in CaptureProbes :
          LET msg == recordCallbackText(b, frames_per_buffer)
          IN  /\ sendlog' = Append(sendlog, msg)
              /\ sent' = UDPSender_send(sent, s_ep, msg)
    /\ rlast' = [stop |-> rstop, status |-> recordCallback_status(rstop)]
    /\ rcalls' = rcalls + 1
    /\ UNCHANGED <<rpc, rdev, rstop, s_ep, s_sock, notRecVars>>

\* Where the last shared_ptr to the sender goes away: the bare sender's
\* scope ends, the recorder's constructor threw, or ~AudioRecorder's body
\* (which closes the stream) is over and the member sender_ is destroyed.
SenderReleasedInDtorBody == {"bare", "r_dtor", "r_release", "r_failed"}

SenderReleasedAt == {"bare", "r_release", "r_failed"}

\* ~AudioRecorder is entered: the recorder is being stopped.
RecDtorBegin ==
    /\ rpc = "r_live"
    /\ rpc' = "r_dtor"
    /\ rstop' = TRUE
    /\ UNCHANGED <<rdev, rlast, rcalls, s_ep, s_sock, sendlog, sent,
                   notRecVars>>

\* ~AudioRecorder: if (stream_) { Pa_CloseStream(stream_); stream_ = nullptr; }
RecDtorClose ==
    /\ rpc = "r_dtor"
    /\ rdev' = "closed"
    /\ rpc' = "r_release"
    /\ UNCHANGED <<rstop, rlast, rcalls, s_ep, s_sock, sendlog, sent,
                   notRecVars>>

\* UDPSender::~UDPSender: socket_.close();  (the recorder's shared_ptr was
\* released, its constructor threw, or the bare sender went out of scope)
SenderDtor ==
    /\ rpc \in SenderReleasedAt
    /\ s_sock' = "closed"
    /\ rpc' = "gone"
    /\ UNCHANGED <<rdev, rstop, rlast, rcalls, s_ep, sendlog, sent,
                   notRecVars>>

NextSend ==
    \/ ClientSend
    \/ RecOpen
    \/ RecStartStream
    \/ RecorderCallback
    \/ RecDtorBegin
    \/ RecDtorClose
    \/ SenderDtor

SpecSend == InitSend /\ [][NextSend]_vars

(* C15: every recordCallback invocation sends once and returns "continue"  *)
(* while the recorder's stop flag is not set, "complete" once it is set.   *)
RecorderStatusFollowsStopFlag ==
    /\ Len(sent) = rcalls
    /\ rlast.status # "none"
          => rlast.status = (IF rlast.stop THEN "paComplete" ELSE "paContinue")

----------------------------------------------------------------------------
(* Destruction of a Receiver.                                              *)

(* C16: the destructor of a Receiver runs once, does not throw or crash,   *)
(* and when it has returned the background thread (if any was spawned)     *)
(* has terminated and been joined and the transport is closed, whatever    *)
(* state the object was destroyed in.                                      *)
DestructorsCompleteTeardown ==
    /\ destructions <= 1
    /\ crashed \notin {"stop", "double_delete"}
    /\ mpc = "dead" => /\ tpc \in {"none", "done"}
                       /\ ~joinable
                       /\ TransportClosed

----------------------------------------------------------------------------
(* main(): the command line, role selection and the quit loop.             *)

\* Lines standard input holds before its end, and how many values of input
\* the loop is followed through when it spins at end of input.
MaxLines == 2

MaxReads == 3

Line_q == <<113>>

Line_Q == <<81>>

Line_quit == <<113, 117, 105, 116>>

Line_space_q == <<32, 113>>

LineProbes == {Line_q, Line_Q, <<>>, Line_quit, Line_space_q}

\* --player values program_options accepted as an int
CliPortProbes == {-1, 0, 1, 12345, 65535, 65536}

\* --recorder values: "ip:port", no colon, nothing or letters after the
\* colon, trailing letters after the digits, a port beyond int.
RecorderArgProbes ==
    { ip \o <<58>> \o Digits(port) :
        ip \in {Ip_127_0_0_1, Ip_10_255_255_1, Ip_999_999_999_999},
        port \in {0, 12345, 65536} }
    \cup { Ip_127_0_0_1,
           Ip_127_0_0_1 \o <<58>>,
           Ip_127_0_0_1 \o <<58, 120>>,
           Ip_127_0_0_1 \o <<58, 56, 48, 120>>,
           Ip_127_0_0_1 \o <<58>> \o Digits(99999) \o Digits(999999) }

\* ip_port.find(':'): the first position holding ':', 0 for npos.
RECURSIVE find_colon(_, _)
find_colon(s, p) ==
    IF p > Len(s) THEN 0
    ELSE IF s[p] = 58 THEN p ELSE find_colon(s, p + 1)

\* The digit run s[p..q-1] accumulated as strtol does; -1 once the value
\* leaves the int range.
RECURSIVE StoiAcc(_, _, _, _)
StoiAcc(s, p, q, acc) ==
    IF p >= q THEN acc
    ELSE IF acc > 214748364 \/ (acc = 214748364 /\ s[p] - 48 > 7) THEN -1
    ELSE StoiAcc(s, p + 1, q, acc * 10 + (s[p] - 48))

\* std::stoi(s): leading whitespace, an optional sign, then digits; text
\* after the digits is ignored.  thrown is "invalid_argument" when there is
\* no digit and "out_of_range" beyond int.
stoi(s) ==
    LET p1  == SkipWs(s, 1)
        neg == p1 <= Len(s) /\ s[p1] = 45
        p2  == IF p1 <= Len(s) /\ s[p1] \in {43, 45} THEN p1 + 1 ELSE p1
        p3  == DigitsEnd(s, p2)
        mag == StoiAcc(s, p2, p3, 0)
    IN  IF p3 = p2 THEN [thrown |-> "invalid_argument", val |-> 0]
        ELSE IF mag = -1 THEN [thrown |-> "out_of_range", val |-> 0]
        ELSE [thrown |-> "none", val |-> IF neg THEN -mag ELSE mag]

\* main.cpp is_ip_reachable: one ping answered within a second
is_ip_reachable(ip) == ip \notin UnreachableIps

\* if (input == "q" || input == "Q") break;
IsQuitLowerOnly(input) == input = Line_q

IsQuit(input) == input = Line_q \/ input = Line_Q

\* var_map.count("player") / var_map.count("recorder")
HasPlayer == args.player # <<>>

HasRecorder == args.recorder # <<>>

\* main() is entered.  When parse_command_line throws nothing was stored in
\* var_map.
InitCli ==
    /\ CodecIdle
    /\ CtorIdle
    /\ MacIdle
    /\ variant = "udp" /\ mode = "test" /\ mpc = "idle"
    /\ RxConstructed
    /\ RecIdle
    /\ cpc = "parse"
    /\ \/ /\ args \in [parse : {"ok"}, help : BOOLEAN,
                       player : {<<>>} \cup { <<q>> : q \in CliPortProbes },
                       recorder : {<<>>} \cup { <<a>> : a \in RecorderArgProbes }]
       \/ /\ args \in [parse : {"syntax", "uncaught"}, help : {FALSE},
                       player : {<<>>}, recorder : {<<>>}]
    /\ pa = "uninit"
    /\ exit_code = -1
    /\ out = <<>>
    /\ role = "none"
    /\ stdin_left \in 0..MaxLines
    /\ lines_read = <<>>

\* std::cout << message; return 1;
ExitWith(message) ==
    /\ out' = Append(out, message)
    /\ exit_code' = 1
    /\ cpc' = "exited"

\* An exception leaves main(): std::terminate.
Abort ==
    /\ cpc' = "aborted"
    /\ UNCHANGED <<out, exit_code>>

\* po::store(po::parse_command_line(...)) inside try / catch of
\* invalid_command_line_syntax; other parse errors are not caught.
MainParse ==
    /\ cpc = "parse"
    /\ \/ args.parse = "syntax" /\ ExitWith("syntax_and_options")
       \/ args.parse = "uncaught" /\ Abort
       \/ args.parse = "ok" /\ cpc' = "help" /\ UNCHANGED <<out, exit_code>>
    /\ UNCHANGED <<args, pa, role, stdin_left, lines_read, notCliVars>>

\* if (var_map.count("help")) { std::cout << desc; return 1; }
MainHelp ==
    /\ cpc = "help"
    /\ \/ args.help /\ ExitWith("options")
       \/ ~args.help /\ cpc' = "pa_init" /\ UNCHANGED <<out, exit_code>>
    /\ UNCHANGED <<args, pa, role, stdin_left, lines_read, notCliVars>>

\* Pa_Initialize(); a failure is thrown as runtime_error out of main().
MainPaInit ==
    /\ cpc = "pa_init"
    /\ \/ pa' = "init" /\ cpc' = "select" /\ UNCHANGED <<out, exit_code>>
       \/ Abort /\ UNCHANGED pa
    /\ UNCHANGED <<args, role, stdin_left, lines_read, notCliVars>>

\* The if / else-if chain on var_map.count("player") and count("recorder"):
\* the branch taken.
SelectBranchPlayerFirst(has_player, has_recorder) ==
    IF has_player THEN "player"
    ELSE IF has_recorder THEN "recorder"
    ELSE "neither"

SelectBranch(has_player, has_recorder) ==
    IF has_player /\ has_recorder THEN "both"
    ELSE IF has_player THEN "player"
    ELSE IF has_recorder THEN "recorder"
    ELSE "neither"

MainSelect ==
    /\ cpc = "select"
    /\ LET branch == SelectBranch(HasPlayer, HasRecorder)
       IN  \/ branch = "both" /\ ExitWith("either_not_both")
           \/ branch = "player" /\ cpc' = "player"
                 /\ UNCHANGED <<out, exit_code>>
           \/ branch = "recorder" /\ cpc' = "recorder"
                 /\ UNCHANGED <<out, exit_code>>
           \/ branch = "neither" /\ ExitWith("either")
    /\ UNCHANGED <<args, pa, role, stdin_left, lines_read, notCliVars>>

\* The player branch: the port check, then
\* make_unique<AudioPlayer>(make_unique<UDPReceiver>(port, ...)), whose
\* exceptions (bind, device) leave main().
MainPlayer ==
    /\ cpc = "player"
    /\ \/ /\ ~main_is_valid_port(args.player[1])
          /\ ExitWith("invalid_port")
          /\ UNCHANGED role
       \/ /\ main_is_valid_port(args.player[1])
          /\ \/ role' = "player" /\ cpc' = "loop"
                   /\ UNCHANGED <<out, exit_code>>
             \/ Abort /\ UNCHANGED role
    /\ UNCHANGED <<args, pa, stdin_left, lines_read, notCliVars>>

\* The recorder branch: find(':'), stoi, the port, ip and ping checks, then
\* make_unique<AudioRecorder>(make_unique<UDPSender>(ip, port)).
MainRecorder ==
    /\ cpc = "recorder"
    /\ LET ip_port   == args.recorder[1]
           colon_pos == find_colon(ip_port, 1)
           port      == stoi(SubSeq(ip_port, colon_pos + 1, Len(ip_port)))
           ip        == SubSeq(ip_port, 1, colon_pos - 1)
       IN  IF colon_pos = 0
           THEN ExitWith("invalid_argument") /\ UNCHANGED role
           ELSE IF port.thrown # "none"
           THEN Abort /\ UNCHANGED role
           ELSE IF ~main_is_valid_port(port.val)
           THEN ExitWith("invalid_port") /\ UNCHANGED role
           ELSE IF ~is_valid_ip(ip)
           THEN ExitWith("invalid_ip") /\ UNCHANGED role
           ELSE IF ~is_ip_reachable(ip)
           THEN ExitWith("unreachable") /\ UNCHANGED role
           ELSE \/ role' = "recorder" /\ cpc' = "loop"
                      /\ UNCHANGED <<out, exit_code>>
                \/ Abort /\ UNCHANGED role
    /\ UNCHANGED <<args, pa, stdin_left, lines_read, notCliVars>>

\* One iteration of while (true): the prompt, getline(std::cin, input), the
\* comparison.  At end of input getline leaves input empty.  lines_read
\* holds the values input took.
MainLoop ==
    /\ cpc = "loop"
    /\ \E input \in (IF stdin_left = 0 THEN {<<>>} ELSE LineProbes) :
           /\ stdin_left = 0 => Len(lines_read) < MaxReads
           /\ stdin_left' = IF stdin_left = 0 THEN 0 ELSE stdin_left - 1
           /\ lines_read' = Append(lines_read, input)
           /\ cpc' = IF IsQuit(input) THEN "terminate" ELSE "loop"
    /\ UNCHANGED <<args, pa, exit_code, out, role, notCliVars>>

\* Pa_Terminate();
MainTerminate ==
    /\ cpc = "terminate"
    /\ pa' = "terminated"
    /\ cpc' = "return"
    /\ UNCHANGED <<args, exit_code, out, role, stdin_left, lines_read,
                   notCliVars>>

\* return 0;  recorder_ptr and player_ptr go out of scope here, which runs
\* ~AudioRecorder / ~AudioPlayer.
MainReturn ==
    /\ cpc = "return"
    /\ exit_code' = 0
    /\ cpc' = "exited"
    /\ UNCHANGED <<args, pa, out, role, stdin_left, lines_read, notCliVars>>

NextCli ==
    \/ MainParse
    \/ MainHelp
    \/ MainPaInit
    \/ MainSelect
    \/ MainPlayer
    \/ MainRecorder
    \/ MainLoop
    \/ MainTerminate
    \/ MainReturn

\* main() runs on the process's only foreground thread and is always
\* scheduled.
SpecCli == InitCli /\ [][NextCli]_vars /\ WF_vars(NextCli)

\* input, the last time the loop compared it
LastInput == lines_read[Len(lines_read)]

(* C19: once a role has started the loop reads standard input line by     *)
(* line; the first line equal to "q" or "Q" ends the loop and the process  *)
(* then exits with code 0; any other line leaves the loop running, and     *)
(* code 0 is returned in no other way.                                     *)
QuitLoopInv ==
    /\ lines_read # <<>> => role # "none"
    /\ \A i \in 1..(Len(lines_read) - 1) : ~(lines_read[i] \in {Line_q, Line_Q})
    /\ cpc = "loop" => \A i \in 1..Len(lines_read) :
                           ~(lines_read[i] \in {Line_q, Line_Q})
    /\ (lines_read # <<>> /\ LastInput \in {Line_q, Line_Q})
          => cpc \in {"terminate", "return", "exited"}
    /\ cpc \in {"terminate", "return"} =>
          lines_read # <<>> /\ LastInput \in {Line_q, Line_Q}
    /\ exit_code = 0 <=>
          /\ cpc = "exited" /\ role # "none"
          /\ lines_read # <<>> /\ LastInput \in {Line_q, Line_Q}

QuitTerminatesSession ==
    /\ []QuitLoopInv
    /\ (lines_read # <<>> /\ LastInput \in {Line_q, Line_Q}) ~> (exit_code = 0)

QuitAfterIgnoredLineWitness ==
    /\ exit_code = 0
    /\ role = "player"
    /\ lines_read = <<Line_quit, Line_Q>>

ConfigErrorMessages ==
    {"invalid_port", "invalid_ip", "invalid_argument", "either_not_both",
     "either"}

(* C21: whenever main returns 1 for invalid arguments (invalid port,       *)
(* invalid ip, missing ':' separator, both or neither role flag), nothing  *)
(* has been acquired by then: the audio engine is not initialized and no   *)
(* role object (socket, thread, device stream) exists.                     *)
ConfigErrorsPrecedeAcquisition ==
    (cpc = "exited" /\ exit_code = 1 /\ out # <<>>
         /\ out[Len(out)] \in ConfigErrorMessages)
      => (pa = "uninit" /\ role = "none")

\* Pa_Initialize was reached and failed: parsing succeeded, --help was not
\* given, and main() ended with the engine uninitialized.
PaInitializeFailed ==
    /\ cpc \in {"exited", "aborted"}
    /\ args.parse = "ok" /\ ~args.help
    /\ pa = "uninit"

(* C22: main returns 0 only after the quit line was read, returns 1 after  *)
(* every usage or validation message (the --help text included), and also  *)
(* returns 1 when Pa_Initialize fails.                                     *)
ExitCodesZeroOrOne ==
    /\ exit_code \in {-1, 0, 1}
    /\ exit_code = 0 => (lines_read # <<>> /\ IsQuit(LastInput))
    /\ (cpc = "exited" /\ out # <<>>) => exit_code = 1
    /\ PaInitializeFailed => (cpc = "exited" /\ exit_code = 1)

\* player_ptr or recorder_ptr holds an object: from its construction until
\* main()'s locals are destroyed at the return.
RoleAlive == role # "none" /\ cpc \in {"loop", "terminate", "return"}

(* C23: on quit the AudioPlayer / AudioRecorder is destroyed before the    *)
(* audio engine is terminated: whenever Pa_Terminate has been called, no   *)
(* role object is alive any more.                                          *)
RoleDestroyedBeforeTerminate == pa = "terminated" => ~RoleAlive

(* C24: after every accept or error event the BluetoothReceiver has        *)
(* handled, a receive is armed again: while the connection is up and the   *)
(* polling thread is between handlers, one Recv is outstanding, so later   *)
(* data is read and delivered.                                             *)
BluetoothReceiveRearmed ==
    (variant = "bt" /\ Alive /\ tpc = "poll" /\ sock = "connected"
        /\ \A i \in 1..Len(net) : net[i].kind = "data")
      => pending > 0

(* C25: stream_lock_ is held only around log statements: it is never held  *)
(* while handle_receive_cb_ is executing.                                  *)
MutexNotHeldDuringCallback == tpc \in CbPcs => stream_lock_ = "free"

RecorderStopObservedBeforeClose ==
    (rpc \in {"r_release", "gone"} /\ rdev = "closed")
      => (rlast.stop /\ rlast.status = "paComplete")

(* C29: once UDPReceiver::stop() has returned, no callback is in progress, *)
(* nothing is left armed or queued, and until the next start() no callback *)
(* begins and nothing the callback writes changes, whatever arrived before *)
(* or arrives after the stop.                                              *)
QuiescentAfterStop ==
    /\ [](( variant = "udp" /\ Alive /\ quiesced) =>
              (tpc \notin CbPcs /\ pending = 0 /\ net = <<>>))
    /\ [][(variant = "udp" /\ Alive /\ quiesced) =>
              /\ tpc' \notin CbPcs
              /\ delivered' = delivered
              /\ received' = received
              /\ recv_buf' = recv_buf]_vars

StopDiscardsQueuedDatagramWitness ==
    /\ variant = "udp" /\ mode = "test" /\ Alive
    /\ quiesced /\ mpc = "idle"
    /\ mid_cb_stop
    /\ events = 2
    /\ Len(delivered) = 1

(* C30: stop() is permanent for a UDPReceiver: once the io service has     *)
(* been stopped it stays stopped, and from then on no completion is ever   *)
(* dispatched, also on the thread of a later start().                      *)
StopIsPermanent ==
    [][(variant = "udp" /\ io_stopped) =>
           (io_stopped' /\ taken' = taken)]_vars

StartAfterStopDeliversNothingWitness ==
    /\ variant = "udp" /\ mode = "test" /\ Alive
    /\ LogOps = <<"stop", "start", "send">>
    /\ tpc = "done"
    /\ net # <<>>
    /\ taken = <<>>

(* C31: a UDPReceiver invokes the callback only for receives that          *)
(* completed without an error code: no callback invocation belongs to a    *)
(* failed receive.                                                         *)
CallbackOnlyOnSuccess ==
    variant = "udp" =>
        /\ \A i \in 1..Len(delivered) : ~delivered[i].err
        /\ tpc \in CbPcs => ~cur.err

----------------------------------------------------------------------------
(* Datagrams around and beyond the capacity of recv_buf_.                  *)

\* How far beyond buffer_size the datagrams tried go.
MaxOversize == 2

OversizeLengths ==
    {0, 1} \cup ((buffer_size - 1)..(buffer_size + MaxOversize))

\* A datagram of n bytes.
DatagramOfLength(n) == [i \in 1..n |-> 65 + (i % 2)]

OversizeQueues ==
    LET d(n) == [kind |-> "data", data |-> DatagramOfLength(n)]
    IN  { <<d(n)>> : n \in OversizeLengths }
          \cup { <<d(n), d(m)>> : n \in OversizeLengths, m \in OversizeLengths }

\* A UDPReceiver of the unit test after start() has returned, with one or
\* two datagrams already queued at its socket.
InitOversize ==
    /\ CodecIdle
    /\ CtorIdle
    /\ MacIdle
    /\ RecIdle
    /\ CliIdle
    /\ variant = "udp" /\ mode = "test" /\ mpc = "idle"
    /\ ret = "idle" /\ dpc = 0 /\ calls = 1
    /\ log = <<Entry("start", <<>>)>>
    /\ quiesced = FALSE /\ crashed = "none"
    /\ tpc = "wait0"
    /\ cur = [err |-> FALSE, n |-> 0]
    /\ mid_cb_stop = FALSE
    /\ joinable = TRUE
    /\ io_stopped = FALSE /\ polling_ = FALSE /\ hive_stopped = FALSE
    /\ sock = "bound"
    /\ pending = 0
    /\ net \in OversizeQueues
    /\ events = Len(net)
    /\ recv_buf = <<>>
    /\ received = <<>>
    /\ stream_ = FALSE /\ dev = "none" /\ writes = 0 /\ late_write = FALSE
    /\ taken = <<>> /\ delivered = <<>> /\ errlog = 0
    /\ stream_lock_ = "free"
    /\ alias = "none" /\ destructions = 0

NextOversize ==
    \/ T_Wait
    \/ T_RunDispatch
    \/ T_Capture

SpecOversize == InitOversize /\ [][NextOversize]_vars

(* C32: in every callback invocation of a UDPReceiver recv_bytes is at     *)
(* most buffer_size (8192), whatever the size of the datagram sent: the    *)
(* callback is never told to read beyond recv_buf_.                        *)
ReceiveBufferBound ==
    /\ cur.n <= buffer_size
    /\ Len(recv_buf) <= buffer_size
    /\ cur.n <= Len(recv_buf)
    /\ \A i \in 1..Len(delivered) : Len(delivered[i].data) <= buffer_size
    /\ \A i \in 1..Len(taken) : Len(taken[i].data) <= buffer_size

OversizeDatagramWitness ==
    /\ tpc = "rearm"
    /\ Len(delivered) = 1
    /\ Len(delivered[1].data) = buffer_size
    /\ Len(net) = 1
    /\ Len(net[1].data) = 1
    /\ Len(log) = 1
    /\ events = 2

(* C33: the text recordCallback produces for a buffer of 16 x 2 int16_t    *)
(* samples is at most 32 x 7 = 224 bytes, below the 8192-byte capacity of  *)
(* the receive buffer, so the receiver hands all of it to the callback.    *)
WireMessageFitsReceiveBuffer ==
    cstage = "sent" =>
        /\ Len(wire) <= NumSlots * 7
        /\ Len(wire) < buffer_size
        /\ bytes_transferred(Len(wire)) = Len(wire)
        /\ ReceiveInto(<<>>, wire) = wire

LongestWireMessageWitness ==
    /\ cstage = "sent"
    /\ \A k \in 1..NumSlots : inputBuffer[k] = SampleMin
    /\ Len(wire) = 224

----------------------------------------------------------------------------
(* What the slots hold after a message with a bad token.                   *)

\* The end of the run of non-whitespace bytes that starts at p.
RECURSIVE NonWsEnd(_, _)
NonWsEnd(s, p) ==
    IF p <= Len(s) /\ ~IsSpace(s[p]) THEN NonWsEnd(s, p + 1) ELSE p

\* The whitespace-delimited token s[a..b-1] read as a whole: an optional
\* sign and digits up to b, within int16_t.
TokenAsShort(s, a, b) ==
    LET p2  == IF s[a] \in {43, 45} THEN a + 1 ELSE a
        mag == Magnitude(s, p2, b, 0)
        v   == IF s[a] = 45 THEN -mag ELSE mag
    IN  IF p2 < b /\ DigitsEnd(s, p2) = b /\ v >= SampleMin /\ v <= SampleMax
        THEN [ok |-> TRUE, val |-> v]
        ELSE [ok |-> FALSE, val |-> 0]

\* The tokens of s from position p, the k-th first: the values of the
\* tokens before the first bad one and the index of that one (0: none
\* among the first NumSlots).
RECURSIVE TokenScan(_, _, _, _)
TokenScan(s, p, k, vals) ==
    LET a == SkipWs(s, p) IN
    IF k > NumSlots \/ a > Len(s) THEN [bad |-> 0, vals |-> vals]
    ELSE LET b == NonWsEnd(s, a)
             t == TokenAsShort(s, a, b)
         IN  IF t.ok THEN TokenScan(s, b, k + 1, Append(vals, t.val))
             ELSE [bad |-> k, vals |-> vals]

\* The extractions `ss >> write_buf[i][j]` in order, the k-th first: the
\* values of those before the first that fails and the index of that one.
RECURSIVE ExtractScan(_, _, _, _)
ExtractScan(s, st, k, vals) ==
    IF k > NumSlots THEN [bad |-> 0, vals |-> vals]
    ELSE LET r == ExtractShort(s, st)
         IN  IF r.fail THEN [bad |-> k, vals |-> vals]
             ELSE ExtractScan(s, [pos |-> r.pos, fail |-> FALSE], k + 1,
                              Append(vals, r.val))

\* Slots before the bad index hold vals, slots after it hold 0.
SlotsAround(scan) ==
    scan.bad > 0 =>
        \A k \in 1..NumSlots :
            /\ k < scan.bad => Interleaved(write_buf)[k] = scan.vals[k]
            /\ k > scan.bad => Interleaved(write_buf)[k] = sample_silence

(* C34: if the i-th whitespace-delimited token of the received message is  *)
(* not a signed 16-bit integer (non-numeric text, or a value out of        *)
(* range), the slots before i hold the parsed values and every slot after  *)
(* i is 0, also when valid tokens follow.                                  *)
DecodingStopsAtFirstBadToken ==
    cstage = "played" => SlotsAround(TokenScan(wire, 1, 1, <<>>))

(* C34, amended: if the i-th extraction from the stream fails, the slots   *)
(* before i hold the values extracted, slot i holds 0 or the int16_t limit *)
(* nearest to the text, and every slot after i is 0, also when valid text  *)
(* follows.                                                                *)
DecodingStopsAtFirstFailedExtraction ==
    cstage = "played" =>
        LET scan == ExtractScan(wire, [pos |-> 1, fail |-> FALSE], 1, <<>>)
        IN  /\ SlotsAround(scan)
            /\ scan.bad > 0 =>
                  Interleaved(write_buf)[scan.bad]
                      \in {sample_silence, SampleMin, SampleMax}

ValidTokenAfterBadWitness ==
    /\ cstage = "played"
    /\ wire = Bad_12x3
    /\ write_buf[0][0] = 7
    /\ write_buf[0][1] = 12
    /\ write_buf[1][0] = 0
    /\ write_buf[1][1] = 0

----------------------------------------------------------------------------
(* The connection-event callbacks of the Bluetooth endpoints and the mutex *)
(* stream_lock_ they take: each callback is run by the polling thread,     *)
(* statement by statement.                                                 *)

MaxLockEvents == 3

\* The statements of each connection-event callback, in source order.
\* BluetoothReceiver is itself the connection; its callbacks use
\* acceptor_->stream_lock_, the same mutex as its ConnectionAcceptor.
ReceiverCallbackBody(target, cb) ==
    CASE target = "BluetoothReceiver" /\ cb = "OnAccept" ->
            <<"lock", "log", "unlock", "Recv">>
      [] target = "BluetoothReceiver" /\ cb = "OnConnect" ->
            <<"log", "unlock", "Recv">>
      [] target = "BluetoothReceiver" /\ cb = "OnRecv" ->
            <<"lock", "callback", "unlock", "Recv">>
      [] target = "BluetoothReceiver" /\ cb = "OnError" ->
            <<"lock", "log", "unlock">>
      [] target = "ConnectionAcceptor" /\ cb = "OnAccept" ->
            <<"lock", "log", "unlock">>
      [] target = "ConnectionAcceptor" /\ cb = "OnError" ->
            <<"lock", "log", "unlock">>

\* BluetoothSender::BluetoothConnection
SenderCallbackBody(cb) ==
    CASE cb = "OnAccept" -> <<"lock", "log", "unlock", "Recv">>
      [] cb = "OnConnect" -> <<"log", "unlock", "Recv">>
      [] cb = "OnRecv" -> <<"Recv">>
      [] cb = "OnError" -> <<"lock", "log", "unlock">>

CallbackBody(target, cb) ==
    IF target = "BluetoothConnection"
    THEN SenderCallbackBody(cb)
    ELSE ReceiverCallbackBody(target, cb)

NoCallback == [target |-> "none", cb |-> "none", i |-> 0]

Invocation(target, cb) == [target |-> target, cb |-> cb, i |-> 1]

\* The endpoints whose polling thread runs: a BluetoothSender whose
\* constructor called connection_->Connect and spawned the thread, and a
\* BluetoothReceiver whose start() listened and accepted.
PollingEndpoints ==
    {o \in {BluetoothSenderCtor(m, p) : m \in MacSeeds, p \in PortProbes} :
        ~o.thrown}
    \cup {[BluetoothReceiverCtor(p) EXCEPT !.started = TRUE, !.sock = "bound",
                                          !.thread = TRUE] :
            p \in PortProbes \cap (1..30)}

lockFrame ==
    <<codecVars, ctorVars, macVars, cfgVars, recVars, cliVars, devVars,
      histVars, mpc, ret, dpc, calls, log, quiesced, mid_cb_stop, joinable,
      io_stopped, polling_, hive_stopped, recv_buf, received>>

InitLock ==
    /\ CodecIdle
    /\ MacIdle
    /\ RecIdle
    /\ CliIdle
    /\ obj \in PollingEndpoints
    /\ port_checked = <<>>
    /\ port_valid = <<>>
    /\ variant = "bt" /\ mode = "test" /\ mpc = "idle"
    /\ ret = "idle" /\ dpc = 0 /\ calls = 0 /\ log = <<>>
    /\ quiesced = FALSE /\ crashed = "none"
    /\ tpc = "poll"
    /\ cur = NoCallback
    /\ mid_cb_stop = FALSE
    /\ joinable = TRUE /\ io_stopped = FALSE
    /\ polling_ = TRUE /\ hive_stopped = FALSE
    /\ sock = (IF obj.cls = "BluetoothSender" THEN "open" ELSE "bound")
    /\ pending = 0
    /\ net = <<>> /\ events = 0
    /\ recv_buf = <<>> /\ received = <<>>
    /\ stream_ = FALSE /\ dev = "none" /\ writes = 0 /\ late_write = FALSE
    /\ taken = <<>> /\ delivered = <<>> /\ errlog = 0
    /\ stream_lock_ = "free"
    /\ alias = "none"
    /\ destructions = 0

\* What the connection library reports next: the outcome of the sender's
\* Connect (OnConnect or OnError), the outcome of the receiver's Accept (the
\* acceptor's OnAccept, then the connection's; or the acceptor's OnError),
\* and on a connected link the completion of an armed Recv or an error.
ConnectionEvents ==
    IF obj.cls = "BluetoothSender"
    THEN CASE sock = "open" ->
                 {<<"connected", <<Invocation("BluetoothConnection", "OnConnect")>> >>,
                  <<"closed", <<Invocation("BluetoothConnection", "OnError")>> >>}
           [] sock = "connected" ->
                 {<<"closed", <<Invocation("BluetoothConnection", "OnError")>> >>}
                 \cup (IF pending > 0
                       THEN {<<"connected", <<Invocation("BluetoothConnection", "OnRecv")>> >>}
                       ELSE {})
           [] OTHER -> {}
    ELSE CASE sock = "bound" ->
                 {<<"connected", <<Invocation("ConnectionAcceptor", "OnAccept"),
                                   Invocation("BluetoothReceiver", "OnAccept")>> >>,
                  <<"closed", <<Invocation("ConnectionAcceptor", "OnError")>> >>}
           [] sock = "connected" ->
                 {<<"closed", <<Invocation("BluetoothReceiver", "OnError")>> >>}
                 \cup (IF pending > 0
                       THEN {<<"connected", <<Invocation("BluetoothReceiver", "OnRecv")>> >>}
                       ELSE {})
           [] OTHER -> {}

L_Event ==
    /\ crashed = "none"
    /\ net = <<>> /\ tpc = "poll"
    /\ events < MaxLockEvents
    /\ \E e \in ConnectionEvents :
          /\ sock' = e[1]
          /\ net' = e[2]
          /\ pending' = (IF e[2][1].cb = "OnRecv" THEN pending - 1 ELSE pending)
    /\ events' = events + 1
    /\ UNCHANGED <<tpc, cur, stream_lock_, crashed, lockFrame>>

\* Hive::Poll runs the next handler.
L_Dispatch ==
    /\ crashed = "none"
    /\ tpc = "poll" /\ polling_
    /\ net # <<>>
    /\ cur' = Head(net)
    /\ net' = Tail(net)
    /\ tpc' = "in_callback"
    /\ UNCHANGED <<sock, pending, events, stream_lock_, crashed, lockFrame>>

Statement ==
    IF tpc = "in_callback" /\ cur.i <= Len(CallbackBody(cur.target, cur.cb))
    THEN CallbackBody(cur.target, cur.cb)[cur.i]
    ELSE "return"

\* boost::mutex::unlock on a mutex nobody owns is undefined: the build may
\* leave the mutex free and go on, or fail the library's check and abort.
UnownedUnlockOutcomes == {"ignored", "abort"}

L_Statement ==
    /\ crashed = "none"
    /\ tpc = "in_callback"
    /\ Statement # "return"
    /\ \/ /\ Statement = "lock"
          /\ stream_lock_ = "free"
          /\ stream_lock_' = "held"
          /\ cur' = [cur EXCEPT !.i = @ + 1]
          /\ UNCHANGED <<pending, crashed, tpc>>
       \/ /\ Statement \in {"log", "callback"}
          /\ cur' = [cur EXCEPT !.i = @ + 1]
          /\ UNCHANGED <<pending, crashed, tpc, stream_lock_>>
       \/ /\ Statement = "unlock"
          /\ stream_lock_ = "held"
          /\ stream_lock_' = "free"
          /\ cur' = [cur EXCEPT !.i = @ + 1]
          /\ UNCHANGED <<pending, crashed, tpc>>
       \/ /\ Statement = "unlock"
          /\ stream_lock_ = "free"
          /\ \E o \in UnownedUnlockOutcomes :
                IF o = "ignored"
                THEN /\ cur' = [cur EXCEPT !.i = @ + 1]
                     /\ UNCHANGED <<crashed, tpc>>
                ELSE /\ crashed' = cur.cb
                     /\ tpc' = "aborted"
                     /\ UNCHANGED cur
          /\ UNCHANGED <<pending, stream_lock_>>
       \/ /\ Statement = "Recv"
          /\ pending' = pending + 1
          /\ cur' = [cur EXCEPT !.i = @ + 1]
          /\ UNCHANGED <<crashed, tpc, stream_lock_>>
    /\ UNCHANGED <<sock, net, events, lockFrame>>

L_Return ==
    /\ crashed = "none"
    /\ tpc = "in_callback"
    /\ Statement = "return"
    /\ tpc' = "poll"
    /\ cur' = NoCallback
    /\ UNCHANGED <<sock, pending, net, events, stream_lock_, crashed, lockFrame>>

NextLock ==
    \/ L_Event
    \/ L_Dispatch
    \/ L_Statement
    \/ L_Return

SpecLock == InitLock /\ [][NextLock]_vars

(* C36: in every Bluetooth connection-event callback each unlock of        *)
(* stream_lock_ is preceded by a lock taken in the same invocation (the    *)
(* mutex is owned whenever a callback is about to unlock it), and the      *)
(* mutex is not held when no callback is running.                          *)
MutexDiscipline ==
    /\ Statement = "unlock" => stream_lock_ = "held"
    /\ tpc = "poll" => stream_lock_ = "free"

(* C37: when the constructor of AudioSpeaker / AudioPlayer throws (the     *)
(* open failed, Pa_StartStream failed, or Receiver.start() threw), the     *)
(* output stream has been closed and the static handle stream_ is null: no *)
(* open device stream outlives the failed construction.                    *)
FailedConstructionReleasesDevice ==
    (mode = "speaker" /\ dpc = 0
        /\ (mpc = "sp_failed" \/ ret = "dead" \/ mpc = "dead"))
        => /\ ~stream_
           /\ dev \in {"none", "closed"}

=============================================================================
